---- MODULE Spec2Model ----
(***************************************************************************)
(* A model of xdChrome-tool's session resilience layer.                    *)
(*                                                                         *)
(* Part 1: the proxy pool (xd-chrome-extended/xd-extended-proxy.js): one   *)
(* ProxyManager instance at a time over a ban store on disk; instances are *)
(* constructed again and again from the same store (a new CLI invocation,  *)
(* or ctx.init() after a rotation).                                        *)
(*                                                                         *)
(* Part 2: the request filter (xd-chrome-extended/xd-extended-adblock.js): *)
(* one adblock manager, its configuration, compiled cache and statistics,  *)
(* and the requests its handler decides.                                   *)
(*                                                                         *)
(* Part 3: the session (xd-chrome-core.js) and its tools                    *)
(* (xd-chrome-tools.js): the browser and its tabs, the element index, the  *)
(* click resolver, navigation with rotation of the proxy.                  *)
(*                                                                         *)
(* Strings are modelled as sequences of tokens, so that trimming, parsing, *)
(* lowercasing and matching are computed rather than assumed.              *)
(***************************************************************************)
EXTENDS Integers, Sequences, FiniteSets, TLC

VARIABLES
    now,          \* Date.now(), in milliseconds
    alive,        \* a process holding a ProxyManager instance is running
    allUrls,      \* this._allUrls
    index,        \* this._index
    current,      \* this._current
    failures,     \* this._failures: url -> recent failure timestamps
    state,        \* this._state: [banned: url -> ban record]
    disk,         \* contents of data_arch/proxies.json
    last,         \* the last call made on the instance and what it returned
    watch,        \* an address, fixed for the whole behaviour, whose history is recorded:
    recent,       \* calls: the times of the (at most FAIL_THRESHOLD) latest
                  \* reportFailure(watch) calls on this instance since its last
                  \* reportSuccess(watch); reset: such a reportSuccess dropped failures
    issuedUntil   \* the latest expiresAt of the bans of watch that a completed
                  \* reportFailure has saved (0: none)

VARIABLES
    config,       \* createAdblockManager: config
    cache,        \* createAdblockManager: cache
    stats,        \* createAdblockManager: stats
    lastDecision, \* the request the handler decided last, the cache it was decided
                  \* under, the decision, and how it compares with the one before
    requestsHandled, \* the number of handler(route) calls since the manager was
                  \* created or resetStats was last called
    installedContexts, \* createAdblockManager: installedContexts, context -> bound hook
    routes,       \* routes[c]: the hooks registered on browser context c by route()
    change,       \* the updateConfig call in progress: where it stands in
                  \* reinstallAll, and the cache it replaced
    served,       \* the last call on the contexts (install, uninstall, a request
                  \* made by a page) and what came of it
    lru           \* a map built by createLRUMap(maxSize): its size limit, its
                  \* entries in insertion order, and the entry its last inc evicted

VARIABLES
    cfgProxy,         \* ctx.config.proxy
    browser,          \* ctx.browser is set
    tabs,             \* the pages of the running browser: tabs[p] is what page p's url() returns
    page,             \* ctx.page: a page of tabs, 0 for null
    pages,            \* ctx.pages
    currentPageIndex, \* ctx.currentPageIndex
    currentUrl,       \* ctx.currentUrl
    visitedUrls,      \* ctx.visitedUrls
    lastSnapshot,     \* ctx.lastSnapshot
    proxyLaunchRaw,   \* ctx._proxyLaunchRaw
    held,             \* an identifier the caller read in an index, the element it named
                      \* there, and whether that index is still the latest one produced
    reported,         \* the times of the latest reportFailure(watch) calls the session
                      \* made since its last reportSuccess(watch)
    lastTool,         \* the tool called last, what it was given and what it did
    ownership,        \* ctx._ownership
    cli               \* the last runCli invocation: its command and how it ended

proxyVars ==
    <<now, alive, allUrls, index, current, failures, state, disk, last, watch, recent,
      issuedUntil>>

hookVars == <<installedContexts, routes, change, served>>

filterVars == <<config, cache, stats, lastDecision, requestsHandled, hookVars, lru>>

sessionVars ==
    <<cfgProxy, browser, tabs, page, pages, currentPageIndex, currentUrl, visitedUrls,
      lastSnapshot, proxyLaunchRaw, held, reported, lastTool, ownership, cli>>

vars == <<proxyVars, filterVars, sessionVars>>

----------------------------------------------------------------------------
\* Program constants (xd-extended-proxy.js:10-14)

FAIL_THRESHOLD == 3

FAIL_WINDOW_MS == 60 * 60 * 1000

BAN_DURATION_MS == 12 * 60 * 60 * 1000

----------------------------------------------------------------------------
\* Bounds of the model

\* the clock ticks twice per failure window
TickMs == FAIL_WINDOW_MS \div 2

\* the clock visits the first MaxTicks ticks and then one late instant, a ban
\* period after the first tick: a ban issued at time 0 has expired before it, a
\* ban issued at the first tick expires at it, one issued later is still in force
MaxTicks == 1

\* the handler decides at most MaxRequests requests between two resetStats
MaxRequests == 2

\* the browser holds at most MaxTabs pages
MaxTabs == 2

\* the filter is installed on at most MaxContexts browser contexts
MaxContexts == 2

\* the maps built by createLRUMap hold at most MaxCapacity entries, and inc is
\* called at most MaxIncs times on one
MaxCapacity == 2

MaxIncs == 4

Times == { a * TickMs : a \in 0..MaxTicks } \cup { BAN_DURATION_MS + TickMs }

----------------------------------------------------------------------------
\* Values

\* null / undefined as a result
Null == [kind |-> "null"]

\* no address (this._current = null)
NoUrl == << >>

\* a null entry of a configured list
NullItem == <<"#null">>

Bool(b) == [kind |-> "bool", value |-> b]

NoFile == [kind |-> "absent"]

\* a document cut short by a crash inside writeFileSync: JSON.parse throws on it
Torn == [kind |-> "torn"]

Empty == << >>

U1 == <<"http:", "//", "p1:8080">>

U2 == <<"http:", "//", "alice", ":", "s3cret", "@", "p2:8080">>

\* no scheme: new URL() throws on it
Bad == <<"p3:8080">>

\* U1 with surrounding whitespace
SpU1 == <<"sp">> \o U1 \o <<"sp">>

\* the addresses reportFailure / reportSuccess are called with
Addresses == {U1, U2}

\* the endpoint lists the pool is configured with (cfg.proxy.urls)
Configs ==
    { [isArray |-> TRUE, items |-> <<U1, U2>>],
      [isArray |-> TRUE, items |-> <<SpU1, NullItem, U1, Empty, Bad>>],
      [isArray |-> TRUE, items |-> << >>],
      [isArray |-> FALSE, items |-> <<U1>>] }

----------------------------------------------------------------------------
\* Helpers on sequences

RECURSIVE SelectSeqBy(_, _)
Range(s) == { s[i] : i \in 1..Len(s) }

SelectSeqBy(s, keep) ==
    IF s = << >> THEN << >>
    ELSE IF Head(s) \in keep THEN <<Head(s)>> \o SelectSeqBy(Tail(s), keep)
    ELSE SelectSeqBy(Tail(s), keep)

\* all orders of the elements of a duplicate-free sequence
Perms(s) ==
    { p \in [1..Len(s) -> Range(s)] : \A i, j \in 1..Len(s) : i # j => p[i] # p[j] }

\* a function without key k (JS: delete obj[k])
Delete(f, k) == [x \in (DOMAIN f) \ {k} |-> f[x]]

\* a function with key k set to v (JS: obj[k] = v)
Put(f, k, v) == [x \in (DOMAIN f) \cup {k} |-> IF x = k THEN v ELSE f[x]]

EmptyMap == [x \in {} |-> 0]

----------------------------------------------------------------------------
\* ProxyManager: construction

RECURSIVE TrimLeft(_)
TrimLeft(s) == IF s # << >> /\ Head(s) = "sp" THEN TrimLeft(Tail(s)) ELSE s

RECURSIVE TrimRight(_)
TrimRight(s) ==
    IF s # << >> /\ s[Len(s)] = "sp" THEN TrimRight(SubSeq(s, 1, Len(s) - 1)) ELSE s

\* String(v || '').trim()
TrimStr(v) == IF v = NullItem THEN << >> ELSE TrimRight(TrimLeft(v))

\* [...new Set(seq)]: first occurrences, in order
RECURSIVE Dedupe(_)
Dedupe(s) ==
    IF s = << >> THEN << >>
    ELSE LET init == Dedupe(SubSeq(s, 1, Len(s) - 1))
             x == s[Len(s)]
         IN IF x \in Range(init) THEN init ELSE Append(init, x)

\* constructor line 23: the configured addresses, trimmed, non-empty, deduplicated
NormalizeUrls(cfgUrls) ==
    LET arr == IF cfgUrls.isArray THEN cfgUrls.items ELSE << >>
        trimmed == [i \in 1..Len(arr) |-> TrimStr(arr[i])]
        kept == SelectSeqBy(trimmed, Range(trimmed) \ {Empty})
    IN Dedupe(kept)

\* _shuffle: Math.random() can produce every order
Shuffle(arr) == Perms(arr)

\* JSON.parse(readFileSync(...)): throws on a torn document
CanParse(doc) == doc.kind = "json"

\* JSON.stringify(this._state)
Stringify(st) == [kind |-> "json", value |-> st]

\* this._state as constructed. (lastRotation, which getNextProxy stamps and nothing
\* reads, is left out of the model.)
InitState == [banned |-> EmptyMap]

\* _load, first half: the state read from disk, the default when there is no
\* file or the file does not parse
LoadedState(doc) == IF CanParse(doc) THEN doc.value ELSE InitState

\* _load, second half: bans that have expired are deleted
CleanExpired(st, t) ==
    [st EXCEPT !.banned =
        [u \in { x \in DOMAIN st.banned : ~(st.banned[x].expiresAt <= t) } |-> st.banned[u]]]

Load(doc, t) == CleanExpired(LoadedState(doc), t)

----------------------------------------------------------------------------
\* ProxyManager: queries

\* a slip in _isBanned: the ban's start is compared instead of its expiry
IsBannedByStart(st, url, t) ==
    /\ url \in DOMAIN st.banned
    /\ ~(t >= st.banned[url].bannedAt)

\* _isBanned(url): the answer ...
IsBanned(st, url, t) ==
    /\ url \in DOMAIN st.banned
    /\ ~(t >= st.banned[url].expiresAt)

\* ... and its side effect, for the urls it is asked about: an expired ban is deleted
PurgeAsked(st, urls, t) ==
    [st EXCEPT !.banned =
        [u \in { x \in DOMAIN st.banned : ~(x \in urls /\ t >= st.banned[x].expiresAt) }
            |-> st.banned[u]]]

\* new URL(raw) succeeds: scheme, "//", optional user ":" password "@", host
IsUrl(raw) ==
    /\ Len(raw) \in {3, 7}
    /\ raw[1] \in {"http:", "https:", "socks5:"}
    /\ raw[2] = "//"
    /\ Len(raw) = 7 => raw[4] = ":" /\ raw[6] = "@"

\* _parseProxy
ParseProxy(raw) ==
    IF IsUrl(raw)
    THEN [raw |-> raw,
          server |-> <<raw[1], "//", raw[Len(raw)]>>,
          username |-> IF Len(raw) = 7 THEN raw[3] ELSE "",
          password |-> IF Len(raw) = 7 THEN raw[5] ELSE "",
          kind |-> "proxy"]
    ELSE Null

\* getStats
GetStatsOf(st, urls, t) ==
    LET banned == Cardinality({ u \in DOMAIN st.banned : st.banned[u].expiresAt > t })
    IN [kind |-> "stats", total |-> Len(urls), available |-> Len(urls) - banned,
        banned |-> banned]

\* the addresses getNextProxy chooses among: this._allUrls.filter(url => !this._isBanned(url))
Available(st, urls, t) ==
    SelectSeqBy(urls, { u \in Range(urls) : ~IsBanned(st, u, t) })

----------------------------------------------------------------------------
\* ProxyManager: operations

Call(op, arg, ret) == [op |-> op, arg |-> arg, ret |-> ret]

NoCall == Call("new", NoUrl, Null)

NoRecent == [calls |-> << >>, reset |-> FALSE]

\* the orders in which a new ProxyManager can hold the lists it is configured with
Pools == UNION { Shuffle(NormalizeUrls(cfg)) : cfg \in Configs }

\* new ProxyManager(cfgUrls): a fresh instance over the store on disk
Construct ==
    \E loaded \in {Load(disk, now)} :
      \E order \in Pools :
        /\ allUrls' = order
        /\ index' = 0
        /\ current' = NoUrl
        /\ failures' = EmptyMap
        /\ state' = loaded
        /\ alive' = TRUE
        /\ last' = NoCall
        /\ recent' = NoRecent
        /\ UNCHANGED <<now, disk, watch, issuedUntil>>
        /\ UNCHANGED filterVars
        /\ UNCHANGED sessionVars

\* getNextProxy()
GetNextProxy ==
    /\ alive
    /\ LET available == Available(state, allUrls, now)
           purged == PurgeAsked(state, Range(allUrls), now)
       IN IF available = << >>
          THEN /\ state' = purged
               /\ last' = Call("getNextProxy", NoUrl, Null)
               /\ UNCHANGED <<index, current>>
          ELSE LET i == (index + 1) % Len(available)
               IN /\ index' = i
                  /\ current' = available[i + 1]
                  /\ state' = purged
                  /\ last' = Call("getNextProxy", NoUrl, ParseProxy(available[i + 1]))
    /\ UNCHANGED <<now, alive, allUrls, failures, disk, watch, recent, issuedUntil>>
    /\ UNCHANGED filterVars
    /\ UNCHANGED sessionVars

\* getCurrentProxy() and getCurrentProxyUrl(): reads of this._current
GetCurrentProxy == IF current = NoUrl THEN Null ELSE ParseProxy(current)

\* the failure timestamps of proxyUrl after this report, none discarded
PrunedFailuresKeepAll(fs, proxyUrl, t) ==
    Append(IF proxyUrl \in DOMAIN fs THEN fs[proxyUrl] ELSE << >>, t)

\* the failure timestamps of proxyUrl after this report, pruned to the window
PrunedFailures(fs, proxyUrl, t) ==
    LET old == IF proxyUrl \in DOMAIN fs THEN fs[proxyUrl] ELSE << >>
        pushed == Append(old, t)
    IN SelectSeqBy(pushed, { ts \in Range(pushed) : t - ts < FAIL_WINDOW_MS })

\* a ban that leaves the failure history of the endpoint in place
ForgottenNot(fs, proxyUrl) == fs

\* reportFailure line 122: delete this._failures[proxyUrl]
Forgotten(fs, proxyUrl) == Delete(fs, proxyUrl)

\* the ban record reportFailure writes
BanRecord(t, n) == [bannedAt |-> t, expiresAt |-> t + BAN_DURATION_MS, failures |-> n]

\* this._state after the ban of proxyUrl
Banned(st, proxyUrl, t, n) == [st EXCEPT !.banned = Put(@, proxyUrl, BanRecord(t, n))]

\* the history of calls after a reportFailure(watch) at time t
Remember(r, t) ==
    LET all == Append(r.calls, t)
    IN [r EXCEPT !.calls = IF Len(all) > FAIL_THRESHOLD THEN Tail(all) ELSE all]

\* the addresses the callers report on: the endpoints of the pool
Reportable == Range(allUrls) \cap Addresses

\* reportFailure(proxyUrl), with save() running to completion
ReportFailure ==
    /\ alive
    /\ \E proxyUrl \in Reportable \cup {Empty} :
         IF proxyUrl = Empty
         THEN UNCHANGED <<failures, state, disk, last, recent, issuedUntil>>
         ELSE LET kept == PrunedFailures(failures, proxyUrl, now)
              IN /\ recent' = IF proxyUrl = watch THEN Remember(recent, now) ELSE recent
                 /\ IF Len(kept) < FAIL_THRESHOLD
                    THEN /\ failures' = Put(failures, proxyUrl, kept)
                         /\ last' = Call("reportFailure", proxyUrl, Bool(FALSE))
                         /\ UNCHANGED <<state, disk, issuedUntil>>
                    ELSE /\ state' = Banned(state, proxyUrl, now, Len(kept))
                         /\ failures' = Forgotten(failures, proxyUrl)
                         /\ disk' = Stringify(state')
                         /\ last' = Call("reportFailure", proxyUrl, Bool(TRUE))
                         /\ issuedUntil' = IF proxyUrl = watch
                                           THEN state'.banned[proxyUrl].expiresAt
                                           ELSE issuedUntil
    /\ UNCHANGED <<now, alive, allUrls, index, current, watch>>
    /\ UNCHANGED filterVars
    /\ UNCHANGED sessionVars

\* what a process killed inside save() can leave on disk: writeFileSync truncates
\* the file and writes it in place, so the file is as it was (killed before the
\* open), cut short, or complete
KilledInSave(old, st) == {old, Torn, Stringify(st)}

\* reportFailure(proxyUrl) reaching the threshold, the process killed inside save()
ReportFailureCrash ==
    /\ alive
    /\ \E proxyUrl \in Reportable :
         LET kept == PrunedFailures(failures, proxyUrl, now)
         IN /\ Len(kept) >= FAIL_THRESHOLD
            /\ disk' \in KilledInSave(disk, Banned(state, proxyUrl, now, Len(kept)))
    /\ alive' = FALSE
    /\ allUrls' = << >>
    /\ index' = 0
    /\ current' = NoUrl
    /\ failures' = EmptyMap
    /\ state' = InitState
    /\ last' = Call("crash", NoUrl, Null)
    /\ recent' = NoRecent
    /\ UNCHANGED <<now, watch, issuedUntil>>
    /\ UNCHANGED filterVars
    /\ UNCHANGED sessionVars

\* a slip in reportSuccess: the history is kept
ClearedNot(fs, proxyUrl) == fs

\* this._failures after reportSuccess(proxyUrl)
Cleared(fs, proxyUrl) == Delete(fs, proxyUrl)

\* reportSuccess(proxyUrl)
ReportSuccess ==
    /\ alive
    /\ \E proxyUrl \in Reportable \cup {Empty} :
         IF proxyUrl = Empty
         THEN UNCHANGED <<failures, recent, last>>
         ELSE /\ failures' = Cleared(failures, proxyUrl)
              /\ recent' = IF proxyUrl = watch
                           THEN [calls |-> << >>,
                                 reset |-> recent.reset \/ proxyUrl \in DOMAIN failures]
                           ELSE recent
              /\ last' = Call("reportSuccess", proxyUrl, Null)
    /\ UNCHANGED <<now, alive, allUrls, index, current, state, disk, watch, issuedUntil>>
    /\ UNCHANGED filterVars
    /\ UNCHANGED sessionVars

\* getStats(): a read
GetStats ==
    /\ alive
    /\ UNCHANGED proxyVars
    /\ UNCHANGED filterVars
    /\ UNCHANGED sessionVars

\* time passes
Advance ==
    /\ \E t \in Times : t > now /\ now' = t
    /\ last' = IF alive THEN Call("wait", NoUrl, Null) ELSE last
    /\ UNCHANGED <<alive, allUrls, index, current, failures, state, disk, watch, recent,
                   issuedUntil>>
    /\ UNCHANGED filterVars
    /\ UNCHANGED sessionVars

----------------------------------------------------------------------------
\* Session: values

\* the urls of the pages
AboutBlank == <<"about:", "blank">>

SiteA == <<"https:", "//", "a.test", "/">>

SiteB == <<"https:", "//", "a.test", "/", "b">>

PopupUrl == <<"https:", "//", "pop.test", "/">>

\* no href attribute
NoHref == << >>

\* an element of a live page: its tag, id, role attribute, label and href
Live(tag, id, roleAttr, label, href) ==
    [tag |-> tag, id |-> id, roleAttr |-> roleAttr, label |-> label, href |-> href]

\* the visible interactive elements of the page at a url, in document order
PageElements(url) ==
    IF url = SiteA
    THEN << Live("a", "", "", "Next", <<"/", "b">>),
            Live("div", "more", "link", "More", <<"/", "b">>),
            Live("button", "", "", "", NoHref) >>
    ELSE IF url = SiteB
    THEN << Live("a", "back", "link", "Back", <<"/">>),
            Live("button", "go", "", "Go", NoHref) >>
    ELSE << >>

\* the identifier createSnapshot gives the element at position idx
ElId(idx) == <<"el_", idx>>

\* no identifier, no element
NoUid == << >>

NoItem == [id |-> NoUid]

\* createSnapshot lines 38-45: the record captured for an element
Capture(el, idx) ==
    [id |-> ElId(idx),
     selector |-> IF el.id # "" THEN <<"#", el.id>> ELSE <<el.tag>>,
     role |-> IF el.roleAttr # "" THEN el.roleAttr ELSE el.tag,
     name |-> el.label,
     href |-> el.href]

\* createSnapshot(page)
CreateSnapshot(url) ==
    LET nodes == PageElements(url)
    IN [elements |-> [i \in 1..Len(nodes) |-> Capture(nodes[i], i - 1)], null |-> FALSE]

\* ctx.lastSnapshot = null
NoSnapshot == [elements |-> << >>, null |-> TRUE]

\* the identifiers the tools are called with
Uids == { ElId(i) : i \in 0..2 }

\* new URL(href, base).toString(); NoUrl when it throws
Resolve(href, base) ==
    IF href # << >> /\ href[1] \in {"http:", "https:"} THEN href
    ELSE IF Len(base) >= 3 /\ base[1] \in {"http:", "https:"} /\ href # << >> /\ href[1] = "/"
    THEN SubSeq(base, 1, 3) \o href
    ELSE NoUrl

\* the click strategies, in the order the code lists them
Strategies == <<"selector", "role", "text", "script">>

\* what the engine can do with a target: the strategies that reach it, from the
\* first that does (the code never learns about the ones after it)
Reaches == { { Strategies[j] : j \in i..Len(Strategies) } : i \in 1..(Len(Strategies) + 1) }

\* what a click that landed makes the page do within the 500 ms the tool waits
Effects == {"none", "navigate", "popup"}

\* what the direct navigation of the href fallback meets
Fallbacks == {"loads", "fails", "loadsAndPopup"}

\* how a page.goto() ends
GotoEnds == {"ok", "tunnel", "other"}

\* the urls navigate is called with
NavTargets == {SiteA}

\* where the page at a url goes when a click on it navigates
Other(url) == IF url = SiteA THEN SiteB ELSE SiteA

\* ctx.config.proxy
ProxyOff == [enabled |-> FALSE, urls |-> [isArray |-> TRUE, items |-> << >>]]

ProxyOn(items) == [enabled |-> TRUE, urls |-> [isArray |-> TRUE, items |-> items]]

\* the pools the sessions with a proxy are configured with
SessionPools == { ProxyOn(<<U1>>), ProxyOn(<<U1, U2>>) }

\* the caller holds no identifier
NoHeld == [uid |-> NoUid, item |-> NoItem, current |-> FALSE]

\* a tool call and what it did
NoTool ==
    [op |-> "none", uid |-> NoUid, outcome |-> "ok", names |-> NoUid, item |-> NoItem,
     stale |-> FALSE, after |-> "other", again |-> FALSE,
     attempts |-> << >>, reach |-> {}, unchanged |-> FALSE,
     fallback |-> "none", target |-> NoUrl, tabAdded |-> FALSE, pageBefore |-> 0,
     gotos |-> 0, rotations |-> 0, ends |-> << >>, pool |-> FALSE, launchBefore |-> NoUrl,
     others |-> {}, arg |-> Null, indexBefore |-> 0, urlBefore |-> NoUrl]

\* no runCli invocation yet
NoCli == [phase |-> "idle", command |-> "none", tool |-> "none", exit |-> 0, out |-> "none",
          escaped |-> FALSE, launched |-> FALSE, initFails |-> FALSE, threw |-> FALSE,
          closeFails |-> FALSE]

\* createAgentContext lines 64-85: the session before init()
SessionIdle ==
    /\ cfgProxy = ProxyOff
    /\ browser = FALSE
    /\ tabs = << >>
    /\ page = 0
    /\ pages = << >>
    /\ currentPageIndex = 0
    /\ currentUrl = AboutBlank
    /\ visitedUrls = {AboutBlank}
    /\ lastSnapshot = NoSnapshot
    /\ proxyLaunchRaw = NoUrl
    /\ held = NoHeld
    /\ reported = << >>
    /\ lastTool = NoTool
    /\ ownership = "standalone"
    /\ cli = NoCli

----------------------------------------------------------------------------
\* Request filter: values

\* undefined
Undef == [t |-> "undefined"]

BoolV(b) == [t |-> "boolean", v |-> b]

\* a string value; the string itself is a sequence of tokens
StrV(chars) == [t |-> "string", chars |-> chars]

\* an array of strings (NullItem: a null entry)
Arr(items) == [t |-> "array", items |-> items]

\* an object with the given fields
Obj(fields) == [t |-> "object", fields |-> fields]

\* an object literal without fields, a patch that names nothing
NoFields == [k \in {} |-> Undef]

\* String.prototype.toLowerCase, per token
LowerTok(tok) ==
    CASE tok = "Shop" -> "shop"
      [] tok = "Example" -> "example"
      [] tok = "COM" -> "com"
      [] tok = "AGGRESSIVE" -> "aggressive"
      [] tok = "Image" -> "image"
      [] tok = "HTTPS:" -> "https:"
      [] OTHER -> tok

LowerStr(chars) == [i \in 1..Len(chars) |-> LowerTok(chars[i])]

\* the resource types requests carry
Document == <<"document">>

Image == <<"image">>

Media == <<"media">>

Font == <<"font">>

Script == <<"script">>

\* domains and patterns
Dom(a, b) == <<a, ".", b>>

Dom3(a, b, c) == <<a, ".", b, ".", c>>

\* createAdblockManager lines 47-54: the defaults
DefaultTypes ==
    Obj([balanced |-> Arr(<<Media>>), aggressive |-> Arr(<<Image, Media, Font>>)])

DefaultPatterns ==
    Arr(<< Dom("doubleclick", "net"), Dom("googlesyndication", "com"),
           Dom("googleadservices", "com"), Dom("taboola", "com"), Dom("outbrain", "com"),
           Dom("criteo", "com"), Dom("adnxs", "com") >>)

LOG_EVERY_BLOCKED == 25

DefaultConfig ==
    [enabled |-> BoolV(TRUE),
     mode |-> StrV(<<"balanced">>),
     blockResourceTypes |-> DefaultTypes,
     blockUrlPatterns |-> DefaultPatterns,
     allowlistDomains |-> Arr(<< >>),
     logEveryBlocked |-> LOG_EVERY_BLOCKED]

\* Object.assign(target, patch) / { ...target, ...patch }
Assign(target, patch) ==
    [k \in (DOMAIN target) \cup (DOMAIN patch) |->
        IF k \in DOMAIN patch THEN patch[k] ELSE target[k]]

\* the initialConfig objects the manager is created with
AllowExample == [allowlistDomains |-> Arr(<< <<"sp", "*", ".", "Example", ".", "COM", ".">> >>)]

OwnPatterns ==
    [blockUrlPatterns |-> Arr(<< <<"/", "ads", "/">>, Dom3("ads", "example", "com"), NullItem >>)]

OwnTypes ==
    [blockResourceTypes |->
        Obj([balanced |-> Arr(<<Document>>), aggressive |-> Arr(<< <<"Image">>, Script >>)])]

InitialConfigs ==
    { NoFields,
      AllowExample,
      Assign(AllowExample, OwnPatterns),
      Assign(Assign(AllowExample, OwnPatterns), OwnTypes) }

\* the mode arguments of setMode
ModeArgs == { StrV(<<"aggressive">>), StrV(<<"balanced">>), StrV(<<"turbo">>), Undef }

\* the patches updateConfig is called with
Patches == { [mode |-> StrV(<<"AGGRESSIVE">>)], [mode |-> StrV(<<"turbo">>)] }

\* the urls of the requests
UrlAds == <<"https:", "//">> \o Dom3("ads", "doubleclick", "net") \o <<"/", "pixel">>

UrlShop == <<"HTTPS:", "//">> \o Dom3("Shop", "Example", "COM") \o <<":", "8443", "/", "cart">>

UrlExAds == <<"https:", "//">> \o Dom3("ads", "example", "com") \o <<"/", "ads", "/", "x">>

UrlPath == <<"https:", "//">> \o Dom("example", "org") \o <<"/", "ads", "/", "banner">>

UrlPlain == <<"https:", "//">> \o Dom("example", "org") \o <<"/", "index">>

UrlData == <<"data:", "image", "/", "png">>

UrlBlob == <<"blob:">> \o UrlExAds

UrlAbout == <<"about:", "blank">>

Request(url, resourceType) == [url |-> url, resourceType |-> resourceType]

\* the requests the handler is given
Requests ==
    { Request(UrlAds, Script), Request(UrlAds, Document),
      Request(UrlShop, Image), Request(UrlExAds, Script),
      Request(UrlPath, Script), Request(UrlPath, Document),
      Request(UrlPlain, Image), Request(UrlPlain, Media), Request(UrlPlain, Font),
      Request(UrlData, Image), Request(UrlBlob, Media), Request(UrlAbout, Image),
      Request(Empty, Media) }

----------------------------------------------------------------------------
\* Request filter: helpers (lines 6-38)

\* a value || fallback
Falsy(v) ==
    \/ v = Undef
    \/ v = BoolV(FALSE)
    \/ v.t = "string" /\ v.chars = << >>

\* normalizeArray
NormalizeArray(value) ==
    LET arr == IF value.t = "array" THEN value.items ELSE << >>
        mapped == [i \in 1..Len(arr) |-> LowerStr(TrimStr(arr[i]))]
    IN SelectSeqBy(mapped, Range(mapped) \ {Empty})

NormalizeModeAsGiven(mode) ==
    IF Falsy(mode) THEN "balanced" ELSE Head(LowerStr(mode.chars))

\* normalizeMode
NormalizeMode(mode) ==
    LET str == IF Falsy(mode) THEN <<"balanced">> ELSE mode.chars
    IN IF LowerStr(str) = <<"aggressive">> THEN "aggressive" ELSE "balanced"

\* .replace(/^\*\./, '')
StripWildcard(chars) ==
    IF Len(chars) >= 2 /\ chars[1] = "*" /\ chars[2] = "."
    THEN SubSeq(chars, 3, Len(chars))
    ELSE chars

\* .replace(/\.+$/, '')
RECURSIVE StripDots(_)
StripDots(chars) ==
    IF chars # << >> /\ chars[Len(chars)] = "."
    THEN StripDots(SubSeq(chars, 1, Len(chars) - 1))
    ELSE chars

\* normalizeDomain
NormalizeDomain(value) == StripDots(StripWildcard(LowerStr(TrimStr(value))))

\* String.prototype.endsWith
EndsWith(chars, suffix) ==
    /\ Len(suffix) <= Len(chars)
    /\ SubSeq(chars, Len(chars) - Len(suffix) + 1, Len(chars)) = suffix

\* String.prototype.includes
Includes(chars, part) ==
    \E i \in 1..(Len(chars) - Len(part) + 1) : SubSeq(chars, i, i + Len(part) - 1) = part

\* hostMatchesDomain
HostMatchesDomain(host, domain) ==
    LET h == NormalizeDomain(host)
        d == NormalizeDomain(domain)
    IN h # << >> /\ d # << >> /\ (h = d \/ EndsWith(h, <<".">> \o d))

\* the first element of a sequence that satisfies a test, given as the set of
\* elements that satisfy it (Array.prototype.find); << >> when there is none
Find(s, ok) == LET hits == SelectSeqBy(s, ok) IN IF hits = << >> THEN << >> ELSE Head(hits)

\* createLRUMap: inc(key), evicting the entry with the smallest count
LRUIncLeastCount(map, key, maxSize) ==
    LET has == { i \in 1..Len(map) : map[i].key = key }
        next == (IF has = {} THEN 0 ELSE map[CHOOSE i \in has : TRUE].count) + 1
        least == CHOOSE i \in 1..Len(map) : \A j \in 1..Len(map) : map[i].count <= map[j].count
        rest == IF has # {}
                THEN SelectSeqBy(map, { e \in Range(map) : e.key # key })
                ELSE IF Len(map) >= maxSize /\ map # << >>
                     THEN SelectSeqBy(map, Range(map) \ {map[least]})
                     ELSE map
    IN Append(rest, [key |-> key, count |-> next])

\* createLRUMap: inc(key) on a Map kept as the sequence of its entries
LRUInc(map, key, maxSize) ==
    LET has == { i \in 1..Len(map) : map[i].key = key }
        next == (IF has = {} THEN 0 ELSE map[CHOOSE i \in has : TRUE].count) + 1
        rest == IF has # {}
                THEN SelectSeqBy(map, { e \in Range(map) : e.key # key })
                ELSE IF Len(map) >= maxSize /\ map # << >> THEN Tail(map) ELSE map
    IN Append(rest, [key |-> key, count |-> next])

LRU_MAX_SIZE == 500

----------------------------------------------------------------------------
\* Request filter: the manager (lines 46-161)

\* the browser contexts
Contexts == 1..MaxContexts

\* no updateConfig call in progress
NoChange == [phase |-> "idle", todo |-> << >>, all |-> {}, step |-> "none", old |-> Null]

\* no call on the contexts yet
NoServed ==
    [op |-> "none", context |-> 0, had |-> FALSE, ret |-> FALSE, request |-> Null,
     hooked |-> FALSE, block |-> FALSE, old |-> Null, new |-> Null,
     before |-> [installed |-> << >>, routes |-> << >>],
     given |-> {}, settings |-> Null]

\* line 59: installedContexts = new Map(), and contexts without a hook
HooksIdle ==
    /\ installedContexts = << >>
    /\ routes = [c \in Contexts |-> {}]
    /\ change = NoChange
    /\ served = NoServed

\* the tracker of a manager that has blocked nothing (line 58)
NoLru ==
    [maxSize |-> LRU_MAX_SIZE, map |-> << >>, incs |-> 0, evicted |-> Null, key |-> << >>,
     touched |-> EmptyMap]

\* line 58 / resetStats
NewStats == [blocked |-> 0, allowed |-> 0, blockedByType |-> EmptyMap, blockedByHost |-> << >>]

\* p.includes('/') || p.includes('?')
IsUrlPattern(p) == \E i \in 1..Len(p) : p[i] \in {"/", "//", "?"}

\* config.blockResourceTypes?.[mode] || []
ModeTypes(cfg, mode) ==
    IF cfg.blockResourceTypes.t = "object" /\ mode \in DOMAIN cfg.blockResourceTypes.fields
    THEN cfg.blockResourceTypes.fields[mode]
    ELSE Arr(<< >>)

\* buildCache
BuildCache(cfg) ==
    LET mode == NormalizeMode(cfg.mode)
        allPatterns == NormalizeArray(cfg.blockUrlPatterns)
        domainPatterns ==
            SelectSeqBy(allPatterns, { q \in Range(allPatterns) : ~IsUrlPattern(q) })
        urlPatterns ==
            SelectSeqBy(allPatterns, { q \in Range(allPatterns) : IsUrlPattern(q) })
        allow == NormalizeArray(cfg.allowlistDomains)
    IN [enabled |-> cfg.enabled # BoolV(FALSE),
        mode |-> mode,
        blockedTypes |-> Range(NormalizeArray(ModeTypes(cfg, mode))),
        domainPatterns |-> [i \in 1..Len(domainPatterns) |-> NormalizeDomain(domainPatterns[i])],
        urlPatterns |-> urlPatterns,
        allowlistDomains |-> [i \in 1..Len(allow) |-> NormalizeDomain(allow[i])]]

\* the schemes new URL() gives a host for
HostSchemes == {"http:", "https:"}

\* the index at which the host of a parsed url ends
RECURSIVE HostEnd(_, _)
HostEnd(url, i) ==
    IF i > Len(url) \/ url[i] \in {"/", "?", "#", ":"} THEN i - 1 ELSE HostEnd(url, i + 1)

\* new URL(url).hostname, '' when new URL throws
Hostname(url) ==
    IF Len(url) >= 3 /\ url[1] \in HostSchemes /\ url[2] = "//"
    THEN SubSeq(url, 3, HostEnd(url, 3))
    ELSE << >>

\* url.startsWith('data:') || url.startsWith('blob:') || url.startsWith('about:')
NonNetwork(url) == url # << >> /\ url[1] \in {"data:", "blob:", "about:"}

Allow == [block |-> FALSE]

Block(host, resourceType, rule) ==
    [block |-> TRUE, host |-> host, resourceType |-> resourceType, blockRule |-> rule]

SkippedWhenOff(c, url) == ~c.enabled \/ url = << >>

\* lines 80-81: the filter is off, or there is nothing to filter
Skipped(c, url) == ~c.enabled \/ url = << >> \/ NonNetwork(url)

\* line 83: the host is on the allowlist
OnAllowlist(c, host) ==
    /\ host # << >>
    /\ \E i \in 1..Len(c.allowlistDomains) : HostMatchesDomain(host, c.allowlistDomains[i])

\* line 85: the resource-category rule
TypeRule(c, host, resourceType) ==
    IF resourceType \in c.blockedTypes
    THEN Block(host, resourceType, <<"type:">> \o resourceType)
    ELSE Allow

PatternRulesOnDocuments(c, url, host, resourceType) ==
    LET matchDomain ==
            Find(c.domainPatterns,
                 { q \in Range(c.domainPatterns) : HostMatchesDomain(host, q) })
        matchUrl == Find(c.urlPatterns, { q \in Range(c.urlPatterns) : Includes(url, q) })
    IN IF matchDomain # << >> THEN Block(host, resourceType, <<"domain:">> \o matchDomain)
       ELSE IF matchUrl # << >> THEN Block(host, resourceType, <<"pattern:">> \o matchUrl)
       ELSE Allow

\* lines 86-91: the domain patterns, then the url patterns, off for documents
PatternRules(c, url, host, resourceType) ==
    LET matchDomain ==
            Find(c.domainPatterns,
                 { q \in Range(c.domainPatterns) : HostMatchesDomain(host, q) })
        matchUrl == Find(c.urlPatterns, { q \in Range(c.urlPatterns) : Includes(url, q) })
    IN IF resourceType = Document THEN Allow
       ELSE IF matchDomain # << >> THEN Block(host, resourceType, <<"domain:">> \o matchDomain)
       ELSE IF matchUrl # << >> THEN Block(host, resourceType, <<"pattern:">> \o matchUrl)
       ELSE Allow

EvaluateAllowlistLast(c, request) ==
    LET url == LowerStr(request.url)
        host == NormalizeDomain(Hostname(url))
        resourceType == LowerStr(request.resourceType)
    IN IF Skipped(c, url) THEN Allow
       ELSE IF TypeRule(c, host, resourceType).block THEN TypeRule(c, host, resourceType)
       ELSE IF PatternRules(c, url, host, resourceType).block
       THEN PatternRules(c, url, host, resourceType)
       ELSE Allow

\* evaluate, on a given cache
EvaluateWith(c, request) ==
    LET url == LowerStr(request.url)
        host == NormalizeDomain(Hostname(url))
        resourceType == LowerStr(request.resourceType)
    IN IF Skipped(c, url) THEN Allow
       ELSE IF OnAllowlist(c, host) THEN Allow
       ELSE IF TypeRule(c, host, resourceType).block THEN TypeRule(c, host, resourceType)
       ELSE PatternRules(c, url, host, resourceType)

EvaluateByCount(request) ==
    IF stats.blocked > 0 THEN Allow ELSE EvaluateWith(cache, request)

\* evaluate(request): decided on the manager's current cache
Evaluate(request) == EvaluateWith(cache, request)

NoDecision == [made |-> FALSE]

\* the inputs the two decisions share, with and without the enabled flag
SameRules(c1, c2) ==
    /\ c1.mode = c2.mode
    /\ c1.blockedTypes = c2.blockedTypes
    /\ c1.domainPatterns = c2.domainPatterns
    /\ c1.urlPatterns = c2.urlPatterns
    /\ c1.allowlistDomains = c2.allowlistDomains

\* the record of a decision
Decided(request, decision) ==
    LET again == /\ lastDecision.made
                 /\ lastDecision.request = request
                 /\ SameRules(lastDecision.under, cache)
    IN [made |-> TRUE,
        request |-> request,
        under |-> cache,
        decision |-> decision,
        sameRules |-> again,
        sameSwitch |-> again /\ lastDecision.under.enabled = cache.enabled,
        first |-> stats = NewStats,
        before |-> IF again THEN lastDecision.decision.block ELSE FALSE]

Handled(st) == st.blocked + st.allowed

\* a blocked request counted without its resource type
CountBlockedNoType(st, decision) ==
    [st EXCEPT
        !.blocked = @ + 1,
        !.blockedByHost =
            IF decision.host # << >> THEN LRUInc(@, decision.host, LRU_MAX_SIZE) ELSE @]

\* stats after a blocked request
CountBlocked(st, decision) ==
    [st EXCEPT
        !.blocked = @ + 1,
        !.blockedByHost =
            IF decision.host # << >> THEN LRUInc(@, decision.host, LRU_MAX_SIZE) ELSE @,
        !.blockedByType =
            IF decision.resourceType # << >>
            THEN Put(@, decision.resourceType,
                     (IF decision.resourceType \in DOMAIN @ THEN @[decision.resourceType] ELSE 0) + 1)
            ELSE @]

\* handler(route): one request decided and counted
Handler ==
    /\ Handled(stats) < MaxRequests
    /\ \E request \in Requests :
         LET decision == Evaluate(request)
         IN /\ stats' = IF decision.block
                        THEN CountBlocked(stats, decision)
                        ELSE [stats EXCEPT !.allowed = @ + 1]
            /\ lastDecision' = Decided(request, decision)
    /\ requestsHandled' = requestsHandled + 1
    /\ UNCHANGED <<config, cache>>
    /\ UNCHANGED <<hookVars, lru>>
    /\ UNCHANGED proxyVars
    /\ UNCHANGED sessionVars

\* updateConfig(patch), no context being installed
UpdateConfigWith(patch) ==
    /\ config' = Assign(config, patch)
    /\ cache' = BuildCache(config')
    /\ UNCHANGED <<stats, lastDecision, requestsHandled>>
    /\ UNCHANGED <<hookVars, lru>>
    /\ UNCHANGED proxyVars
    /\ UNCHANGED sessionVars

UpdateConfig == \E patch \in Patches : UpdateConfigWith(patch)

\* setMode(mode)
SetMode == \E mode \in ModeArgs : UpdateConfigWith([mode |-> StrV(<<NormalizeMode(mode)>>)])

\* setEnabled(enabled)
SetEnabled == \E enabled \in BOOLEAN : UpdateConfigWith([enabled |-> BoolV(enabled)])

\* resetStats()
ResetStats ==
    /\ stats' = NewStats
    /\ UNCHANGED <<config, cache, lastDecision>>
    /\ requestsHandled' = 0
    /\ UNCHANGED <<hookVars, lru>>
    /\ UNCHANGED proxyVars
    /\ UNCHANGED sessionVars

\* getStatus(): a read
GetStatus ==
    [enabled |-> cache.enabled,
     mode |-> cache.mode,
     rules |-> [blockResourceTypes |-> config.blockResourceTypes,
                blockUrlPatterns |-> config.blockUrlPatterns,
                allowlistDomains |-> config.allowlistDomains],
     stats |-> [blocked |-> stats.blocked, allowed |-> stats.allowed,
                blockedByType |-> stats.blockedByType]]

\* createAdblockManager(initialConfig)
FilterInit ==
    /\ \E initialConfig \in InitialConfigs : config = Assign(DefaultConfig, initialConfig)
    /\ cache = BuildCache(config)
    /\ stats = NewStats
    /\ lastDecision = NoDecision
    /\ requestsHandled = 0
    /\ HooksIdle
    /\ lru = NoLru

\* the manager of a session with the default configuration, no request yet
ManagerIdle ==
    /\ config = DefaultConfig
    /\ cache = BuildCache(config)
    /\ stats = NewStats
    /\ lastDecision = NoDecision
    /\ requestsHandled = 0
    /\ HooksIdle

FilterIdle == ManagerIdle /\ lru = NoLru

\* a session without proxy support (cfg.proxy.enabled false): no pool
ProxyIdle ==
    /\ now = 0
    /\ disk = NoFile
    /\ alive = FALSE
    /\ allUrls = << >>
    /\ index = 0
    /\ current = NoUrl
    /\ failures = EmptyMap
    /\ state = InitState
    /\ last = NoCall
    /\ watch = U1
    /\ recent = NoRecent
    /\ issuedUntil = 0

FilterNext ==
    \/ Handler
    \/ UpdateConfig
    \/ SetMode
    \/ SetEnabled
    \/ ResetStats

\* a session that filters requests and has no pool
FilterSession == FilterInit /\ ProxyIdle /\ SessionIdle

SpecFilter == FilterSession /\ [][FilterNext]_vars

----------------------------------------------------------------------------
\* Request filter: the contexts (lines 108-143)

\* installedContexts and the hooks of the contexts
Hooks == [installed |-> installedContexts, routes |-> routes]

\* installedContexts.has(context)
Has(map, c) == \E i \in 1..Len(map) : map[i].context = c

\* installedContexts.get(context)
BoundOf(map, c) == map[CHOOSE i \in 1..Len(map) : map[i].context = c].bound

\* Array.from(installedContexts.keys())
KeysOf(map) == [i \in 1..Len(map) |-> map[i].context]

\* const bound = route => handler(route): a function that is none of those
\* routed on the context
NewBound(h, c) ==
    CHOOSE b \in 1..(Cardinality(h.routes[c]) + 1) : b \notin h.routes[c]

\* install(context) that registers a hook whether or not one is recorded
InstallOfAlways(h, c) ==
    IF c = 0 THEN h
    ELSE [installed |-> Append(SelectSeqBy(h.installed,
                                           { e \in Range(h.installed) : e.context # c }),
                               [context |-> c, bound |-> NewBound(h, c)]),
          routes |-> [h.routes EXCEPT ![c] = @ \cup {NewBound(h, c)}]]

\* install(context), lines 109-116; context 0 is null
InstallOf(h, c) ==
    IF c = 0 \/ Has(h.installed, c) THEN h
    ELSE [installed |-> Append(h.installed, [context |-> c, bound |-> NewBound(h, c)]),
          routes |-> [h.routes EXCEPT ![c] = @ \cup {NewBound(h, c)}]]

\* uninstall(context), lines 119-125
UninstallOf(h, c) ==
    IF c = 0 \/ ~Has(h.installed, c) THEN h
    ELSE [installed |-> SelectSeqBy(h.installed, { e \in Range(h.installed) : e.context # c }),
          routes |-> [h.routes EXCEPT ![c] = @ \ {BoundOf(h.installed, c)}]]

\* the record of a call on context c, before it has run
Serving(op, c) ==
    [NoServed EXCEPT
        !.op = op,
        !.context = c,
        !.had = c # 0 /\ Has(installedContexts, c),
        !.before = Hooks]

\* install(context), called by the owner of the manager
Install ==
    /\ change.phase = "idle"
    /\ \E c \in Contexts \cup {0} : \E h \in {InstallOf(Hooks, c)} :
         /\ installedContexts' = h.installed
         /\ routes' = h.routes
         /\ served' = [Serving("install", c) EXCEPT !.ret = TRUE]
    /\ UNCHANGED <<config, cache, stats, lastDecision, requestsHandled, change, lru>>
    /\ UNCHANGED proxyVars
    /\ UNCHANGED sessionVars

\* uninstall(context), called by the owner of the manager
Uninstall ==
    /\ change.phase = "idle"
    /\ \E c \in Contexts \cup {0} : \E h \in {UninstallOf(Hooks, c)} :
         /\ installedContexts' = h.installed
         /\ routes' = h.routes
         /\ served' = [Serving("uninstall", c) EXCEPT !.ret = c # 0 /\ Has(installedContexts, c)]
    /\ UNCHANGED <<config, cache, stats, lastDecision, requestsHandled, change, lru>>
    /\ UNCHANGED proxyVars
    /\ UNCHANGED sessionVars

\* the patches of the changes made while contexts are installed
HookPatches ==
    { [mode |-> StrV(<<"aggressive">>)], [mode |-> StrV(<<"balanced">>)] }

\* the requests the pages of the contexts make
HookRequests == { Request(UrlAds, Script), Request(UrlPlain, Image) }

\* updateConfig(patch) up to its first await: lines 136-137, and reinstallAll
\* taking the list of the contexts (line 129)
ChangeBegin ==
    /\ change.phase = "idle"
    /\ \E patch \in HookPatches :
         /\ config' = Assign(config, patch)
         /\ cache' = BuildCache(config')
    /\ change' = [phase |-> "reinstall", todo |-> KeysOf(installedContexts),
                  all |-> Range(KeysOf(installedContexts)), step |-> "unroute", old |-> cache]
    /\ served' = Serving("updateConfig", 0)
    /\ UNCHANGED <<stats, lastDecision, requestsHandled, installedContexts, routes, lru>>
    /\ UNCHANGED proxyVars
    /\ UNCHANGED sessionVars

\* reinstallAll, line 130: await uninstall(context)
ChangeUnroute ==
    /\ change.phase = "reinstall"
    /\ change.todo # << >>
    /\ change.step = "unroute"
    /\ \E h \in {UninstallOf(Hooks, Head(change.todo))} :
         /\ installedContexts' = h.installed
         /\ routes' = h.routes
    /\ change' = [change EXCEPT !.step = "route"]
    /\ served' = Serving("unroute", Head(change.todo))
    /\ UNCHANGED <<config, cache, stats, lastDecision, requestsHandled, lru>>
    /\ UNCHANGED proxyVars
    /\ UNCHANGED sessionVars

\* reinstallAll, line 130: await install(context)
ChangeRoute ==
    /\ change.phase = "reinstall"
    /\ change.todo # << >>
    /\ change.step = "route"
    /\ \E h \in {InstallOf(Hooks, Head(change.todo))} :
         /\ installedContexts' = h.installed
         /\ routes' = h.routes
    /\ change' = [change EXCEPT !.step = "unroute", !.todo = Tail(@)]
    /\ served' = Serving("route", Head(change.todo))
    /\ UNCHANGED <<config, cache, stats, lastDecision, requestsHandled, lru>>
    /\ UNCHANGED proxyVars
    /\ UNCHANGED sessionVars

\* updateConfig returns (line 139)
ChangeReturn ==
    /\ change.phase = "reinstall"
    /\ change.todo = << >>
    /\ change' = NoChange
    /\ served' = Serving("return", 0)
    /\ UNCHANGED <<config, cache, stats, lastDecision, requestsHandled, installedContexts, routes, lru>>
    /\ UNCHANGED proxyVars
    /\ UNCHANGED sessionVars

\* a page of context c makes a request: the hook of the context runs handler on
\* it; a context without a hook lets it through
Serve ==
    /\ Handled(stats) < MaxRequests
    /\ \E c \in Contexts, request \in HookRequests : \E decision \in {Evaluate(request)} :
         LET hooked == routes[c] # {}
         IN /\ stats' = IF ~hooked THEN stats
                        ELSE IF decision.block THEN CountBlocked(stats, decision)
                        ELSE [stats EXCEPT !.allowed = @ + 1]
            /\ lastDecision' = IF hooked THEN Decided(request, decision) ELSE lastDecision
            /\ requestsHandled' = IF hooked THEN requestsHandled + 1 ELSE requestsHandled
            /\ served' = [Serving("request", c) EXCEPT
                              !.had = c \in change.all \/ Has(installedContexts, c),
                              !.request = request,
                              !.hooked = hooked,
                              !.block = hooked /\ decision.block,
                              !.old = IF change.phase = "idle" THEN cache ELSE change.old,
                              !.new = cache]
    /\ UNCHANGED <<config, cache, installedContexts, routes, change, lru>>
    /\ UNCHANGED proxyVars
    /\ UNCHANGED sessionVars

\* a manager with the default configuration, installed nowhere
HooksStart == FilterIdle /\ ProxyIdle /\ SessionIdle

HooksNext ==
    \/ ResetStats
    \/ Install
    \/ Uninstall
    \/ ChangeBegin
    \/ ChangeUnroute
    \/ ChangeRoute
    \/ ChangeReturn
    \/ Serve

SpecHooks == HooksStart /\ [][HooksNext]_vars

----------------------------------------------------------------------------
\* Blocked-host tracker: createLRUMap on its own

\* the hosts counted
TrackedHosts == { Dom("doubleclick", "net"), Dom("criteo", "com"), Dom("taboola", "com") }

\* the keys of a map
Keys(map) == { map[i].key : i \in 1..Len(map) }

\* createLRUMap(maxSize)
NewLru(maxSize) == [NoLru EXCEPT !.maxSize = maxSize]

\* inc(key)
LruInc ==
    /\ lru.incs < MaxIncs
    /\ \E key \in TrackedHosts :
         lru' = [lru EXCEPT
                    !.map = LRUInc(@, key, lru.maxSize),
                    !.incs = @ + 1,
                    !.key = key,
                    !.touched = Put(@, key, lru.incs + 1),
                    !.evicted = IF Keys(lru.map) \subseteq Keys(LRUInc(lru.map, key, lru.maxSize))
                                THEN Null
                                ELSE CHOOSE e \in Range(lru.map) :
                                         e.key \notin Keys(LRUInc(lru.map, key, lru.maxSize))]
    /\ UNCHANGED <<config, cache, stats, lastDecision, requestsHandled, hookVars>>
    /\ UNCHANGED proxyVars
    /\ UNCHANGED sessionVars

\* clear()
LruClear ==
    /\ lru.map # << >>
    /\ lru' = [lru EXCEPT !.map = << >>, !.evicted = Null, !.key = << >>, !.touched = EmptyMap]
    /\ UNCHANGED <<config, cache, stats, lastDecision, requestsHandled, hookVars>>
    /\ UNCHANGED proxyVars
    /\ UNCHANGED sessionVars

\* maps of every size limit up to MaxCapacity, empty
LruStart ==
    /\ lru \in { NewLru(maxSize) : maxSize \in 1..MaxCapacity }
    /\ ManagerIdle
    /\ ProxyIdle
    /\ SessionIdle

LruNext == LruInc \/ LruClear

SpecLru == LruStart /\ [][LruNext]_vars

----------------------------------------------------------------------------
\* Proxy pool: the specification

ProxyInit ==
    /\ now = 0
    /\ disk = NoFile
    /\ alive = TRUE
    /\ \E cfg \in Configs : allUrls \in Shuffle(NormalizeUrls(cfg))
    /\ index = 0
    /\ current = NoUrl
    /\ failures = EmptyMap
    /\ state = Load(disk, now)
    /\ last = NoCall
    /\ watch = U1
    /\ recent = NoRecent
    /\ issuedUntil = 0

ProxyNext ==
    \/ Construct
    \/ GetNextProxy
    \/ ReportFailure
    \/ ReportFailureCrash
    \/ ReportSuccess
    \/ GetStats
    \/ Advance

\* a session with a pool whose filter sees no request
ProxySession == ProxyInit /\ FilterIdle /\ SessionIdle

SpecProxy == ProxySession /\ [][ProxyNext]_vars

----------------------------------------------------------------------------
\* Session: the context (xd-chrome-core.js)

\* the state the session's operations read and write: the context, its pool
\* and the store under it, its filter
Ctx ==
    [browser |-> browser, tabs |-> tabs, page |-> page, pages |-> pages,
     currentPageIndex |-> currentPageIndex, currentUrl |-> currentUrl,
     visitedUrls |-> visitedUrls, lastSnapshot |-> lastSnapshot,
     proxyLaunchRaw |-> proxyLaunchRaw,
     manager |-> alive, allUrls |-> allUrls, index |-> index, current |-> current,
     failures |-> failures, state |-> state, disk |-> disk,
     config |-> config, cache |-> cache, stats |-> stats,
     installed |-> installedContexts, routes |-> routes]

\* the state an operation leaves
Commit(c) ==
    /\ browser' = c.browser
    /\ tabs' = c.tabs
    /\ page' = c.page
    /\ pages' = c.pages
    /\ currentPageIndex' = c.currentPageIndex
    /\ currentUrl' = c.currentUrl
    /\ visitedUrls' = c.visitedUrls
    /\ lastSnapshot' = c.lastSnapshot
    /\ proxyLaunchRaw' = c.proxyLaunchRaw
    /\ alive' = c.manager
    /\ allUrls' = c.allUrls
    /\ index' = c.index
    /\ current' = c.current
    /\ failures' = c.failures
    /\ state' = c.state
    /\ disk' = c.disk
    /\ config' = c.config
    /\ cache' = c.cache
    /\ stats' = c.stats
    /\ installedContexts' = c.installed
    /\ routes' = c.routes

\* what the session's operations leave alone
SessionFrame ==
    UNCHANGED <<cfgProxy, now, watch, last, recent, issuedUntil, lastDecision, requestsHandled, change,
                served, lru,
                ownership, cli>>

\* DEFAULT_CONFIG.adblock (xd-chrome-core.js:26-32), which init() passes to the filter
CoreAdblock ==
    [enabled |-> BoolV(TRUE),
     mode |-> StrV(<<"balanced">>),
     blockResourceTypes |-> DefaultTypes,
     blockUrlPatterns |->
        Arr(<< Dom("doubleclick", "net"), Dom("googlesyndication", "com"),
               Dom("googleadservices", "com"), Dom("taboola", "com"),
               Dom("outbrain", "com"), Dom("criteo", "com") >>),
     allowlistDomains |-> Arr(<< >>)]

\* createAdblockManager(cfg.adblock): the configuration and the cache it compiles
SessionConfig == Assign(DefaultConfig, CoreAdblock)

SessionCache == BuildCache(SessionConfig)

\* the orders in which a new ProxyManager can hold the configured addresses
Orders == Shuffle(NormalizeUrls(cfgProxy.urls))

\* init() lines 167-177: a new ProxyManager over the store, and its first endpoint
WithProxy(c, order) ==
    LET loaded == Load(c.disk, now)
        available == Available(loaded, order, now)
        i == IF available = << >> THEN 0 ELSE (0 + 1) % Len(available)
        proxy == IF available = << >> THEN Null ELSE ParseProxy(available[i + 1])
    IN [c EXCEPT
           !.manager = TRUE,
           !.allUrls = order,
           !.failures = EmptyMap,
           !.state = PurgeAsked(loaded, Range(order), now),
           !.index = i,
           !.current = IF available = << >> THEN NoUrl ELSE available[i + 1],
           !.proxyLaunchRaw = IF proxy = Null THEN @ ELSE proxy.raw]

\* the network context of the pages of the browser init() launches (one
\* browser.newPage() context, shared by the pages its pages open)
LaunchContext == 1

\* the network context of a page handed to the session by the owner of a browser
GivenContext == 2

\* ctx.page.context(), 0 when there is no active page
PageContext(c) ==
    IF c.page = 0 THEN 0 ELSE IF c.browser THEN LaunchContext ELSE GivenContext

\* init() lines 187-188: a new filter, hooked on the context of the new page
Filtered(c) ==
    LET fresh == [installed |-> << >>, routes |-> [c.routes EXCEPT ![LaunchContext] = {}]]
        hooked == InstallOf(fresh, LaunchContext)
    IN [c EXCEPT !.installed = hooked.installed, !.routes = hooked.routes]

\* init() that creates the filter and installs it nowhere
InitOfNoHook(c, order) ==
    LET p == IF cfgProxy.enabled THEN WithProxy(c, order) ELSE c
    IN [p EXCEPT
           !.browser = TRUE,
           !.tabs = <<AboutBlank>>,
           !.page = 1,
           !.pages = <<1>>,
           !.currentPageIndex = 0,
           !.currentUrl = AboutBlank,
           !.config = SessionConfig,
           !.cache = SessionCache,
           !.stats = NewStats,
           !.installed = << >>,
           !.routes = [c.routes EXCEPT ![LaunchContext] = {}]]

\* init(), launching a browser
InitOf(c, order) ==
    LET p == Filtered(IF cfgProxy.enabled THEN WithProxy(c, order) ELSE c)
    IN [p EXCEPT
           !.browser = TRUE,
           !.tabs = <<AboutBlank>>,
           !.page = 1,
           !.pages = <<1>>,
           !.currentPageIndex = 0,
           !.currentUrl = AboutBlank,
           !.config = SessionConfig,
           !.cache = SessionCache,
           !.stats = NewStats]

\* close() that closes the browser whoever owns it
CloseOfAnyOwner(c) ==
    [c EXCEPT !.browser = FALSE, !.tabs = << >>, !.page = 0, !.pages = << >>,
              !.routes[LaunchContext] = {}]

\* close(): pooled ownership clears the page references only; standalone
\* ownership closes ctx.browser, if set, and clears the references
CloseOf(c) ==
    IF ownership = "pooled"
    THEN [c EXCEPT !.page = 0, !.pages = << >>]
    ELSE [c EXCEPT !.browser = FALSE,
                   !.tabs = IF c.browser THEN << >> ELSE @,
                   !.page = 0,
                   !.pages = << >>,
                   !.routes[LaunchContext] = IF c.browser THEN {} ELSE @]

\* this._proxyManager.reportFailure(url)
FailOf(c, url) ==
    LET kept == PrunedFailures(c.failures, url, now)
        banned == Banned(c.state, url, now, Len(kept))
    IN IF Len(kept) < FAIL_THRESHOLD
       THEN [c EXCEPT !.failures = Put(@, url, kept)]
       ELSE [c EXCEPT !.state = banned, !.failures = Forgotten(@, url),
                      !.disk = Stringify(banned)]

\* rotateBrowser(), for a shuffle of the new pool
RotateOf(c, order) ==
    IF ~c.manager THEN c
    ELSE LET failed == IF c.proxyLaunchRaw # NoUrl THEN FailOf(c, c.proxyLaunchRaw) ELSE c
         IN InitOf(CloseOf(failed), order)

\* the url of the active page
PageUrl(c) == c.tabs[c.page]

\* ctx.currentUrl = ctx.page.url(); ctx.addVisitedUrl(ctx.currentUrl)
Arrived(c) ==
    [c EXCEPT !.currentUrl = PageUrl(c), !.visitedUrls = @ \cup {PageUrl(c)}]

\* switchToTab(index)
SwitchOf(c, k) ==
    IF k < 0 \/ k >= Len(c.pages) THEN c
    ELSE [c EXCEPT !.page = c.pages[k + 1], !.currentPageIndex = k,
                   !.currentUrl = c.tabs[c.pages[k + 1]]]

\* the listener of line 200: a page the browser opened joins the tab set
Opened(c, url) ==
    [c EXCEPT !.tabs = Append(@, url), !.pages = Append(@, Len(c.tabs) + 1)]

\* the times of the failures reported on watch, after one more
Reported(r, t) ==
    LET all == Append(r, t)
    IN IF Len(all) > FAIL_THRESHOLD THEN Tail(all) ELSE all

----------------------------------------------------------------------------
\* Session: the tools (xd-chrome-tools.js)

\* ctx.lastSnapshot?.elements?.find(el => el.id === params.uid)
FindItem(snap, uid) ==
    LET hits == SelectSeqBy(snap.elements, { e \in Range(snap.elements) : e.id = uid })
    IN IF snap.null \/ hits = << >> THEN NoItem ELSE Head(hits)

\* the record of a call of tool op with identifier uid, before it has run
Called(op, uid) ==
    [NoTool EXCEPT
        !.op = op,
        !.uid = uid,
        !.stale = uid # NoUid /\ uid = held.uid /\ ~held.current,
        !.after = IF lastTool.outcome = "ok"
                     /\ lastTool.op \in {"click", "scroll", "fill", "openLink"}
                  THEN lastTool.op
                  ELSE "other",
        !.again = lastTool.outcome = "ok" /\ lastTool.op = "click" /\ lastTool.uid = uid,
        !.pageBefore = page,
        !.pool = alive,
        !.launchBefore = proxyLaunchRaw]

\* the identifier the caller holds when a new index is produced: the first of the
\* new index, or the one it held already, now out of date
Noted(snap) ==
    { [held EXCEPT !.current = FALSE] }
        \cup { [uid |-> e.id, item |-> e, current |-> TRUE] :
                  e \in { x \in Range(snap.elements) : x.id = ElId(0) } }

\* click lines 124-147: the strategies that apply to an element, in order
ClickStrategies(item) ==
    SelectSeqBy(Strategies,
        {"selector", "script"}
            \cup (IF item.role # "" /\ item.name # "" THEN {"role"} ELSE {})
            \cup (IF item.name # "" THEN {"text"} ELSE {}))

AttemptsAll(item, reach) == ClickStrategies(item)

AttemptsFirstOnly(item, reach) == <<"selector">>

\* click lines 123-150: the strategies tried on an element, given those that reach it
Attempts(item, reach) ==
    LET all == ClickStrategies(item)
        hits == { i \in 1..Len(all) : all[i] \in reach }
    IN IF hits = {} THEN all
       ELSE SubSeq(all, 1, CHOOSE i \in hits : \A j \in hits : i <= j)

\* clicked: the last strategy tried landed
Landed(item, reach) == Attempts(item, reach)[Len(Attempts(item, reach))] \in reach

\* line 165: the element is a link with a captured target
LinkWithTarget(item) == item.role = "link" /\ item.href # NoHref

KeptSnapshot(snap) == snap

\* lines 175 and 230: ctx.lastSnapshot = null
Invalidated(snap) == NoSnapshot

\* a page opens while there is room for it
Popup(c) == IF Len(c.tabs) < MaxTabs THEN Opened(c, PopupUrl) ELSE c

\* click lines 153-175, after a strategy landed
AfterClick(c, item, effect, fallback) ==
    LET urlBefore == PageUrl(c)
        acted == CASE effect = "navigate" -> [c EXCEPT !.tabs[c.page] = Other(urlBefore)]
                   [] effect = "popup" -> Popup(c)
                   [] OTHER -> c
        switched == IF Len(acted.pages) > Len(c.pages)
                    THEN SwitchOf(acted, Len(acted.pages) - 1)
                    ELSE acted
        arrived == Arrived(switched)
        resolved == Resolve(item.href, PageUrl(arrived))
        direct == arrived.currentUrl = urlBefore /\ LinkWithTarget(item)
        loaded == [arrived EXCEPT !.tabs[arrived.page] = resolved]
        done == IF ~direct \/ resolved = NoUrl \/ fallback = "fails" THEN arrived
                ELSE IF fallback = "loadsAndPopup" THEN Arrived(Popup(loaded))
                ELSE Arrived(loaded)
    IN [ctx |-> [done EXCEPT !.lastSnapshot = Invalidated(@)],
        unchanged |-> arrived.currentUrl = urlBefore,
        fallback |-> IF ~direct THEN "none"
                     ELSE IF resolved = NoUrl \/ fallback = "fails" THEN "failed"
                     ELSE "loaded",
        target |-> IF direct THEN resolved ELSE NoUrl]

\* a click that drops the index before it throws
ThrownCleared(c) == [c EXCEPT !.lastSnapshot = Invalidated(@)]

\* click lines 116-117 and 143-147: the throw comes before any assignment to ctx
Thrown(c) == c

\* click
Click ==
    \E uid \in Uids :
      \E reach \in IF FindItem(lastSnapshot, uid) = NoItem \/ page = 0 THEN {{}} ELSE Reaches :
        \E effect \in IF reach = {} THEN {"none"} ELSE Effects :
          \E fallback \in IF reach = {} \/ effect # "none" THEN {"loads"} ELSE Fallbacks :
            \E after \in IF reach = {} THEN {[ctx |-> Ctx]}
                          ELSE {AfterClick(Ctx, FindItem(lastSnapshot, uid), effect, fallback)} :
        LET item == FindItem(lastSnapshot, uid)
            call == Called("click", uid)
            tried == [call EXCEPT !.item = item, !.attempts = Attempts(item, reach),
                                  !.reach = reach]
        IN /\ IF item = NoItem
              THEN /\ Commit(Thrown(Ctx))
                   /\ lastTool' = [call EXCEPT !.outcome = "notFound", !.names = uid]
              ELSE IF page = 0
              THEN /\ Commit(Ctx)
                   /\ lastTool' = [call EXCEPT !.outcome = "typeError", !.item = item]
              ELSE IF ~Landed(item, reach)
              THEN /\ Commit(Thrown(Ctx))
                   /\ lastTool' = [tried EXCEPT !.outcome = "exhausted", !.names = uid]
              ELSE /\ Commit(after.ctx)
                   /\ lastTool' = [tried EXCEPT
                                      !.unchanged = after.unchanged,
                                      !.fallback = after.fallback,
                                      !.target = after.target,
                                      !.tabAdded = Len(after.ctx.pages) > Len(pages)]
           /\ UNCHANGED <<held, reported>>
           /\ SessionFrame

\* the tool init: if (!ctx.browser) await ctx.init()
ToolInit ==
    /\ \E order \in Orders : \E c \in {IF browser THEN Ctx ELSE InitOf(Ctx, order)} : Commit(c)
    /\ lastTool' = Called("init", NoUid)
    /\ UNCHANGED <<held, reported>>
    /\ SessionFrame

\* the tool close
ToolClose ==
    /\ Commit(CloseOf(Ctx))
    /\ lastTool' = Called("close", NoUid)
    /\ UNCHANGED <<held, reported>>
    /\ SessionFrame

\* navigate that leaves the index as it was
NavigatedNoIndex(c, url) == Arrived([c EXCEPT !.tabs[c.page] = url])

\* navigate lines 93-100, after a page.goto() that succeeded
Navigated(c, url) ==
    LET arrived == Arrived([c EXCEPT !.tabs[c.page] = url])
        cleared == IF arrived.manager /\ arrived.proxyLaunchRaw # NoUrl
                   THEN [arrived EXCEPT !.failures = Cleared(@, arrived.proxyLaunchRaw)]
                   ELSE arrived
    IN [cleared EXCEPT !.lastSnapshot = CreateSnapshot(PageUrl(cleared))]

NavigationWithRetries(c, url, first, retry, order) ==
    LET rotated == RotateOf(c, order)
        again == RotateOf(rotated, order)
    IN IF first = "ok"
       THEN [ctx |-> Navigated(c, url), ok |-> TRUE, ends |-> <<first>>, rotations |-> 0]
       ELSE IF first = "tunnel" /\ c.manager
       THEN IF retry = "ok"
            THEN [ctx |-> Navigated(rotated, url), ok |-> TRUE, ends |-> <<first, retry>>,
                  rotations |-> 1]
            ELSE [ctx |-> Navigated(again, url), ok |-> TRUE,
                  ends |-> <<first, retry, "ok">>, rotations |-> 2]
       ELSE [ctx |-> c, ok |-> FALSE, ends |-> <<first>>, rotations |-> 0]

\* navigate lines 79-91: the attempts and the rotation between them
Navigation(c, url, first, retry, order) ==
    LET rotated == RotateOf(c, order)
    IN IF first = "ok"
       THEN [ctx |-> Navigated(c, url), ok |-> TRUE, ends |-> <<first>>, rotations |-> 0]
       ELSE IF first = "tunnel" /\ c.manager
       THEN IF retry = "ok"
            THEN [ctx |-> Navigated(rotated, url), ok |-> TRUE, ends |-> <<first, retry>>,
                  rotations |-> 1]
            ELSE [ctx |-> rotated, ok |-> FALSE, ends |-> <<first, retry>>, rotations |-> 1]
       ELSE [ctx |-> c, ok |-> FALSE, ends |-> <<first>>, rotations |-> 0]

\* the failures reported on watch, after a navigation
ReportedAfter(c, nav) ==
    LET failed == IF nav.rotations > 0 /\ c.proxyLaunchRaw = watch
                  THEN Reported(reported, now)
                  ELSE reported
    IN IF nav.ok /\ nav.ctx.manager /\ nav.ctx.proxyLaunchRaw = watch THEN << >> ELSE failed

\* navigate
Navigate ==
    \E url \in NavTargets, first \in GotoEnds, order \in Orders, again \in Orders :
      \E retry \in IF first = "tunnel" THEN GotoEnds ELSE {"ok"} :
        \E started \in {IF page = 0 THEN InitOf(Ctx, order) ELSE Ctx} :
          \E nav \in {Navigation(started, url, first, retry, again)} :
        LET call == [Called("navigate", NoUid) EXCEPT
                        !.pool = started.manager,
                        !.launchBefore = started.proxyLaunchRaw,
                        !.gotos = Len(nav.ends),
                        !.rotations = nav.rotations,
                        !.ends = nav.ends,
                        !.target = url]
        IN /\ Commit(nav.ctx)
           /\ lastTool' = IF nav.ok THEN call ELSE [call EXCEPT !.outcome = "navError"]
           /\ held' \in IF nav.ok THEN Noted(nav.ctx.lastSnapshot) ELSE {held}
           /\ reported' = ReportedAfter(started, nav)
           /\ SessionFrame

\* snapshot
Snapshot ==
    /\ IF page = 0
       THEN /\ Commit(Ctx)
            /\ lastTool' = [Called("snapshot", NoUid) EXCEPT !.outcome = "typeError"]
            /\ held' = held
       ELSE /\ Commit([Ctx EXCEPT !.lastSnapshot = CreateSnapshot(tabs[page])])
            /\ lastTool' = Called("snapshot", NoUid)
            /\ held' \in Noted(CreateSnapshot(tabs[page]))
    /\ UNCHANGED reported
    /\ SessionFrame

\* fill
Fill ==
    \E uid \in Uids, filled \in BOOLEAN :
        LET item == FindItem(lastSnapshot, uid)
            call == Called("fill", uid)
        IN /\ Commit(Ctx)
           /\ lastTool' =
                IF item = NoItem THEN [call EXCEPT !.outcome = "notFound", !.names = uid]
                ELSE IF page = 0 THEN [call EXCEPT !.outcome = "typeError", !.item = item]
                ELSE IF ~filled THEN [call EXCEPT !.outcome = "timeout", !.item = item]
                ELSE [call EXCEPT !.item = item]
           /\ UNCHANGED <<held, reported>>
           /\ SessionFrame

\* openLink
OpenLink ==
    \E uid \in Uids, end \in GotoEnds :
        LET item == FindItem(lastSnapshot, uid)
            call == Called("openLink", uid)
            found == [call EXCEPT !.item = item]
            resolved == Resolve(item.href, tabs[page])
        IN /\ IF item = NoItem
              THEN /\ Commit(Ctx)
                   /\ lastTool' = [call EXCEPT !.outcome = "notFound", !.names = uid]
              ELSE IF page = 0
              THEN /\ Commit(Ctx)
                   /\ lastTool' = [found EXCEPT !.outcome = "typeError"]
              ELSE IF item.href = NoHref
              THEN /\ Commit(Ctx)
                   /\ lastTool' = [found EXCEPT !.outcome = "noHref", !.names = uid]
              ELSE IF resolved = NoUrl
              THEN /\ Commit(Ctx)
                   /\ lastTool' = [found EXCEPT !.outcome = "typeError"]
              ELSE IF end # "ok"
              THEN /\ Commit(Ctx)
                   /\ lastTool' = [found EXCEPT !.outcome = "navError", !.target = resolved]
              ELSE /\ Commit(Arrived([Ctx EXCEPT !.tabs[page] = resolved]))
                   /\ lastTool' = [found EXCEPT !.target = resolved]
           /\ UNCHANGED <<held, reported>>
           /\ SessionFrame

\* scroll
Scroll ==
    /\ IF page = 0
       THEN /\ Commit(Ctx)
            /\ lastTool' = [Called("scroll", NoUid) EXCEPT !.outcome = "typeError"]
       ELSE /\ Commit([Ctx EXCEPT !.lastSnapshot = Invalidated(@)])
            /\ lastTool' = Called("scroll", NoUid)
    /\ UNCHANGED <<held, reported>>
    /\ SessionFrame

\* what switchToTab is asked for: String(params.target) parsed as a number, or not
SwitchTargets ==
    { [isNumber |-> TRUE, index |-> k, needle |-> ""] : k \in (0 - 1)..MaxTabs }
        \cup { [isNumber |-> FALSE, index |-> 0, needle |-> n] :
                   n \in {"a.test", "pop.test", "b.test", "//"} }

\* the last tab whose url contains needle, -1 when there is none
FindTabLast(c, needle) ==
    LET hits == { k \in 1..Len(c.pages) :
                    \E i \in 1..Len(c.tabs[c.pages[k]]) : c.tabs[c.pages[k]][i] = needle }
    IN IF hits = {} THEN 0 - 1 ELSE (CHOOSE k \in hits : \A j \in hits : k >= j) - 1

\* ctx.pages.findIndex(p => p.url().includes(needle)), -1 when there is none
FindTab(c, needle) ==
    LET hits == { k \in 1..Len(c.pages) :
                    \E i \in 1..Len(c.tabs[c.pages[k]]) : c.tabs[c.pages[k]][i] = needle }
    IN IF hits = {} THEN 0 - 1 ELSE (CHOOSE k \in hits : \A j \in hits : k <= j) - 1

\* ctx.switchToTab(indexOrUrl), lines 97-112: the context it leaves and what it returns
SwitchTabOf(c, target) ==
    LET k == IF target.isNumber THEN target.index ELSE FindTab(c, target.needle)
    IN [ctx |-> SwitchOf(c, k), ret |-> k >= 0 /\ k < Len(c.pages)]

\* ctx.switchToTab(indexOrUrl), called on the context
SwitchTab ==
    \E target \in SwitchTargets :
        LET done == SwitchTabOf(Ctx, target)
        IN /\ Commit(done.ctx)
           /\ lastTool' = [Called("switchTab", NoUid) EXCEPT
                              !.outcome = IF done.ret THEN "ok" ELSE "false",
                              !.arg = target,
                              !.indexBefore = currentPageIndex,
                              !.urlBefore = currentUrl]
           /\ UNCHANGED <<held, reported>>
           /\ SessionFrame

\* the tool switchToTab
SwitchToTab ==
    \E target \in SwitchTargets :
        LET k == IF target.isNumber THEN target.index ELSE FindTab(Ctx, target.needle)
            ok == k >= 0 /\ k < Len(pages)
        IN /\ Commit(SwitchOf(Ctx, k))
           /\ lastTool' = IF ok THEN Called("switchToTab", NoUid)
                          ELSE [Called("switchToTab", NoUid) EXCEPT !.outcome = "tabNotFound"]
           /\ UNCHANGED <<held, reported>>
           /\ SessionFrame

\* the browser opens a page and the listener of init() lines 200-204 runs
TabOpened ==
    /\ browser
    /\ Len(tabs) < MaxTabs
    /\ Commit(Opened(Ctx, PopupUrl))
    /\ lastTool' = Called("opened", NoUid)
    /\ UNCHANGED <<held, reported>>
    /\ SessionFrame

\* the unbanned endpoints of a pool other than one of them
OtherEndpoints(c, url) ==
    { u \in Range(c.allUrls) : u # url /\ ~IsBanned(c.state, u, now) }

\* the tool proxyControl, action rotate
ProxyRotate ==
    \E order \in Orders :
          \E rotated \in {RotateOf(Ctx, order)} :
        LET call == Called("rotate", NoUid)
        IN /\ Commit(rotated)
           /\ lastTool' =
                IF ~alive THEN [call EXCEPT !.outcome = "unavailable"]
                ELSE [call EXCEPT !.rotations = 1,
                                  !.others = OtherEndpoints(rotated, proxyLaunchRaw)]
           /\ reported' = IF alive /\ proxyLaunchRaw = watch
                          THEN Reported(reported, now)
                          ELSE reported
           /\ UNCHANGED held
           /\ SessionFrame

----------------------------------------------------------------------------
\* Session: the specifications

\* a session without a proxy: the tools that look at the page and act on it
SessionStart == SessionIdle /\ ProxyIdle /\ FilterIdle

SessionNext ==
    \/ ToolInit
    \/ ToolClose
    \/ Navigate
    \/ Snapshot
    \/ Click
    \/ Fill
    \/ OpenLink
    \/ Scroll

SpecSession == SessionStart /\ [][SessionNext]_vars

\* a session configured with or without a pool, before init(), over an empty store
RotationStart ==
    /\ cfgProxy \in {ProxyOff} \cup SessionPools
    /\ watch \in Addresses
    /\ now = 0
    /\ disk = NoFile
    /\ alive = FALSE
    /\ allUrls = << >>
    /\ index = 0
    /\ current = NoUrl
    /\ failures = EmptyMap
    /\ state = InitState
    /\ last = NoCall
    /\ recent = NoRecent
    /\ issuedUntil = 0
    /\ browser = FALSE
    /\ tabs = << >>
    /\ page = 0
    /\ pages = << >>
    /\ currentPageIndex = 0
    /\ currentUrl = AboutBlank
    /\ visitedUrls = {AboutBlank}
    /\ lastSnapshot = NoSnapshot
    /\ proxyLaunchRaw = NoUrl
    /\ held = NoHeld
    /\ reported = << >>
    /\ lastTool = NoTool
    /\ ownership = "standalone"
    /\ cli = NoCli
    /\ FilterIdle

RotationNext ==
    \/ ToolInit
    \/ Navigate
    \/ ProxyRotate
    \/ Advance

SpecRotation == RotationStart /\ [][RotationNext]_vars

\* the pools of a session whose configuration lists an address that does not parse
LaunchPools == { ProxyOn(<<U1>>), ProxyOn(<<U1, Bad>>) }

\* launchOpts.proxy of the running browser (init() lines 170-174): the endpoint
\* getNextProxy() returned, none when it returned null
LaunchedWith ==
    IF ~alive \/ current = NoUrl \/ ParseProxy(current) = Null THEN NoUrl ELSE current

\* a session configured with such a pool, before init(), over an empty store
LaunchStart ==
    /\ cfgProxy \in LaunchPools
    /\ watch \in Addresses
    /\ now = 0
    /\ disk = NoFile
    /\ alive = FALSE
    /\ allUrls = << >>
    /\ index = 0
    /\ current = NoUrl
    /\ failures = EmptyMap
    /\ state = InitState
    /\ last = NoCall
    /\ recent = NoRecent
    /\ issuedUntil = 0
    /\ browser = FALSE
    /\ tabs = << >>
    /\ page = 0
    /\ pages = << >>
    /\ currentPageIndex = 0
    /\ currentUrl = AboutBlank
    /\ visitedUrls = {AboutBlank}
    /\ lastSnapshot = NoSnapshot
    /\ proxyLaunchRaw = NoUrl
    /\ held = NoHeld
    /\ reported = << >>
    /\ lastTool = NoTool
    /\ ownership = "standalone"
    /\ cli = NoCli
    /\ FilterIdle

LaunchNext ==
    \/ ToolInit
    \/ ToolClose
    \/ ProxyRotate
    \/ Advance

SpecLaunch == LaunchStart /\ [][LaunchNext]_vars

\* a session with a pool whose tabs are opened, switched and clicked
\* a session with one endpoint in its pool, before init()
ActiveStart == LaunchStart /\ cfgProxy = ProxyOn(<<U1>>) /\ watch = U2

ActiveNext ==
    \/ Navigate
    \/ Click
    \/ TabOpened
    \/ SwitchToTab
    \/ ProxyRotate

SpecActive == ActiveStart /\ [][ActiveNext]_vars

\* createAgentContext(config, opts): a standalone session, or a pooled one
\* given a page of a browser that someone else owns
TabsStart ==
    /\ ownership \in {"standalone", "pooled"}
    /\ cfgProxy = ProxyOff
    /\ browser = FALSE
    /\ tabs = IF ownership = "pooled" THEN <<SiteA>> ELSE << >>
    /\ page = IF ownership = "pooled" THEN 1 ELSE 0
    /\ pages = IF ownership = "pooled" THEN <<1>> ELSE << >>
    /\ currentPageIndex = 0
    /\ currentUrl = AboutBlank
    /\ visitedUrls = {AboutBlank}
    /\ lastSnapshot = NoSnapshot
    /\ proxyLaunchRaw = NoUrl
    /\ held = NoHeld
    /\ reported = << >>
    /\ lastTool = NoTool
    /\ cli = NoCli
    /\ ProxyIdle
    /\ FilterIdle

TabsNext == ToolInit \/ ToolClose \/ Navigate \/ TabOpened \/ SwitchTab \/ SwitchToTab

SpecTabs == TabsStart /\ [][TabsNext]_vars

----------------------------------------------------------------------------
\* Command line: one runCli per process (src/xd-chrome-cli.js, xd-chrome.js)

\* the commands given on the command line
CliCommands ==
    {"help", "nope", "done", "init", "navigate", "snapshot", "click", "fill", "open-link"}

\* COMMAND_TO_TOOL[parsed.command]; "none" for a command it does not list
CommandToTool(command) ==
    CASE command = "open-link" -> "openLink"
      [] command \in {"help", "nope"} -> "none"
      [] OTHER -> command

\* createAgentContext(config): a context of its own for the invocation
NewContext(c) ==
    [c EXCEPT
        !.browser = FALSE,
        !.tabs = << >>,
        !.page = 0,
        !.pages = << >>,
        !.currentPageIndex = 0,
        !.currentUrl = AboutBlank,
        !.visitedUrls = {AboutBlank},
        !.lastSnapshot = NoSnapshot,
        !.proxyLaunchRaw = NoUrl,
        !.manager = FALSE,
        !.allUrls = << >>,
        !.index = 0,
        !.current = NoUrl,
        !.failures = EmptyMap,
        !.state = InitState,
        !.config = DefaultConfig,
        !.cache = BuildCache(DefaultConfig),
        !.stats = NewStats]

\* what the invocation leaves alone besides the context
CliFrame ==
    UNCHANGED <<cfgProxy, now, watch, last, recent, issuedUntil, lastDecision, requestsHandled, change,
                served, lru,
                ownership, held, reported>>

\* how init() ends: it returns, chromium.launch() throws, or a step after the
\* launch (the filter's install, the stealth session) throws
InitEnds == {"ok", "launch", "attach"}

\* runCli lines 150-171: the command, its tool, a new context and its init();
\* an init() that throws is caught by main() only, which prints the stack
CliBegin ==
    /\ cli.phase \in {"idle", "done"}
    /\ \E command \in CliCommands, initEnd \in InitEnds, order \in Orders :
         LET run == [NoCli EXCEPT !.command = command, !.tool = CommandToTool(command)]
             fresh == NewContext(Ctx)
             shouldInit == command \notin {"help", "done"}
         IN IF command = "help"
            THEN /\ Commit(Ctx)
                 /\ lastTool' = lastTool
                 /\ cli' = [run EXCEPT !.phase = "done", !.out = "usage", !.exit = 0]
            ELSE IF run.tool = "none"
            THEN /\ Commit(Ctx)
                 /\ lastTool' = lastTool
                 /\ cli' = [run EXCEPT !.phase = "done", !.out = "usage", !.exit = 1]
            ELSE IF shouldInit /\ initEnd # "ok"
            THEN /\ Commit(IF initEnd = "launch" THEN fresh ELSE InitOf(fresh, order))
                 /\ lastTool' = NoTool
                 /\ cli' = [run EXCEPT !.phase = "done", !.initFails = TRUE,
                                       !.launched = initEnd # "launch",
                                       !.escaped = TRUE, !.out = "stack", !.exit = 1]
            ELSE /\ Commit(IF shouldInit THEN InitOf(fresh, order) ELSE fresh)
                 /\ lastTool' = NoTool
                 /\ cli' = [run EXCEPT !.phase = "running", !.launched = shouldInit]
    /\ CliFrame

\* the tool done
ToolDone ==
    /\ Commit(Ctx)
    /\ lastTool' = Called("done", NoUid)
    /\ UNCHANGED <<held, reported>>
    /\ SessionFrame

\* runCli line 174: tool.execute(ctx, params)
CliExecute ==
    /\ cli.phase = "running"
    /\ lastTool.op = "none"
    /\ \/ cli.tool = "done" /\ ToolDone
       \/ cli.tool = "init" /\ ToolInit
       \/ cli.tool = "navigate" /\ Navigate
       \/ cli.tool = "snapshot" /\ Snapshot
       \/ cli.tool = "click" /\ Click
       \/ cli.tool = "fill" /\ Fill
       \/ cli.tool = "openLink" /\ OpenLink

\* runCli lines 175-182: the result or the error is printed, then ctx.close() runs
\* in finally; a close() that throws replaces the exit status returned
CliEnd ==
    /\ cli.phase = "running"
    /\ lastTool.op # "none"
    /\ \E closeFails \in IF browser THEN BOOLEAN ELSE {FALSE} :
         LET threw == lastTool.outcome # "ok"
             printed == [cli EXCEPT !.phase = "done", !.threw = threw,
                                    !.out = IF threw THEN "error" ELSE "result",
                                    !.exit = IF threw THEN 1 ELSE 0]
         IN IF closeFails
            THEN /\ Commit(Ctx)
                 /\ cli' = [printed EXCEPT !.closeFails = TRUE, !.escaped = TRUE, !.exit = 1]
            ELSE /\ Commit(CloseOf(Ctx))
                 /\ cli' = printed
    /\ UNCHANGED lastTool
    /\ CliFrame

CliStart == SessionIdle /\ ProxyIdle /\ FilterIdle

CliNext == CliBegin \/ CliExecute \/ CliEnd

SpecCli == CliStart /\ [][CliNext]_vars

----------------------------------------------------------------------------
\* Command line: the adblock command (xd-chrome-cli.js:121-130)

\* the settings a patch can name
Settings == {"enabled", "mode", "blockUrlPatterns", "allowlistDomains"}

\* toBoolean(value, fallback)
ToBoolean(value, fallback) ==
    IF value = Undef THEN fallback
    ELSE IF value.t = "boolean" THEN value.v
    ELSE LET normalized == LowerStr(TrimRight(TrimLeft(value.chars)))
         IN IF normalized \in {<<"1">>, <<"true">>, <<"yes">>, <<"on">>} THEN TRUE
            ELSE IF normalized \in {<<"0">>, <<"false">>, <<"no">>, <<"off">>} THEN FALSE
            ELSE fallback

\* value.split(',')
RECURSIVE SplitCommas(_)
SplitCommas(chars) ==
    IF \A i \in 1..Len(chars) : chars[i] # ","
    THEN <<chars>>
    ELSE LET i == CHOOSE k \in 1..Len(chars) :
                      chars[k] = "," /\ \A j \in 1..(k - 1) : chars[j] # ","
         IN <<SubSeq(chars, 1, i - 1)>> \o SplitCommas(SubSeq(chars, i + 1, Len(chars)))

\* parseList(value)
ParseList(value) ==
    LET pieces == SplitCommas(IF Falsy(value) THEN << >> ELSE value.chars)
        trimmed == [i \in 1..Len(pieces) |-> TrimRight(TrimLeft(pieces[i]))]
    IN SelectSeqBy(trimmed, Range(trimmed) \ {Empty})

\* flags[name], undefined for a flag that was not given
Flag(flags, name) == IF name \in DOMAIN flags THEN flags[name] ELSE Undef

\* the patch that names the settings of the flags given and no other
PatchOfGiven(flags) ==
    [k \in DOMAIN flags |->
        CASE k = "enabled" -> BoolV(ToBoolean(flags[k], TRUE))
          [] k = "mode" -> flags[k]
          [] OTHER -> Arr(ParseList(flags[k]))]

\* parseParams, case 'adblock': the patch of lines 123-128
PatchOfFlags(flags) ==
    [enabled |-> IF Flag(flags, "enabled") # Undef
                 THEN BoolV(ToBoolean(Flag(flags, "enabled"), TRUE))
                 ELSE Undef,
     mode |-> Flag(flags, "mode"),
     blockUrlPatterns |-> IF ~Falsy(Flag(flags, "blockUrlPatterns"))
                          THEN Arr(ParseList(Flag(flags, "blockUrlPatterns")))
                          ELSE Undef,
     allowlistDomains |-> IF ~Falsy(Flag(flags, "allowlistDomains"))
                          THEN Arr(ParseList(Flag(flags, "allowlistDomains")))
                          ELSE Undef]

\* the values the flags are given on the command line
FlagValues(name) ==
    CASE name = "enabled" -> { StrV(<<"sp", "Off">>), StrV(<<"yes">>) }
      [] name = "mode" -> { StrV(<<"aggressive">>) }
      [] name = "blockUrlPatterns" ->
            { StrV(Dom3("ads", "example", "com") \o <<",", "sp", ",", "sp", "/", "ads", "/">>) }
      [] OTHER -> { StrV(Dom("example", "org")) }

\* the flags of an `adblock updateConfig` command
CliFlags ==
    UNION { { f \in [given -> UNION { FlagValues(n) : n \in given }] :
                \A n \in given : f[n] \in FlagValues(n) } : given \in SUBSET Settings }

\* the record of an updateConfig call, before it has run
Patching(op, given) ==
    [NoServed EXCEPT !.op = op, !.given = given, !.settings = config]

\* updateConfig(patch) lines 136-137, no context being installed
PatchOf(patch) ==
    /\ config' = Assign(config, patch)
    /\ cache' = BuildCache(config')
    /\ UNCHANGED <<stats, lastDecision, requestsHandled, installedContexts, routes, change, lru>>
    /\ UNCHANGED proxyVars
    /\ UNCHANGED sessionVars

\* manager.updateConfig(patch) called with an object that names some settings
UpdateSome ==
    \E flags \in CliFlags :
        /\ PatchOf(PatchOfGiven(flags))
        /\ served' = Patching("updateConfig", DOMAIN flags)

\* the command `adblock updateConfig` with some flags: parseParams builds the
\* patch, adblockControl passes it to updateConfig (xd-chrome-tools.js:270)
CliUpdateConfig ==
    \E flags \in CliFlags :
        /\ PatchOf(PatchOfFlags(flags))
        /\ served' = Patching("adblock updateConfig", DOMAIN flags)

\* the manager init() creates, before any command
PatchStart ==
    /\ config = SessionConfig
    /\ cache = SessionCache
    /\ stats = NewStats
    /\ lastDecision = NoDecision
    /\ requestsHandled = 0
    /\ HooksIdle
    /\ lru = NoLru
    /\ ProxyIdle
    /\ SessionIdle

PatchNext == UpdateSome \/ CliUpdateConfig

SpecPatch == PatchStart /\ [][PatchNext]_vars

----------------------------------------------------------------------------
\* Proxy pool: properties

\* reportFailure(watch) has been called FAIL_THRESHOLD times within the failure
\* window with no reportSuccess(watch) in between
ThresholdHit ==
    /\ Len(recent.calls) = FAIL_THRESHOLD
    /\ recent.calls[FAIL_THRESHOLD] - recent.calls[1] < FAIL_WINDOW_MS

\* C1: once reportFailure has been called on an endpoint 3 times within the
\* failure window with no reportSuccess in between, the endpoint is banned, and
\* until 12 hours have passed a getNextProxy call on the instance returns another
\* endpoint or none, never that one.
C1_BannedAfterThreshold ==
    (alive /\ ThresholdHit /\ now < recent.calls[1] + BAN_DURATION_MS) =>
        /\ IsBanned(state, watch, now)
        /\ state.banned[watch].expiresAt = state.banned[watch].bannedAt + BAN_DURATION_MS
        /\ (last.op = "getNextProxy" /\ last.ret.kind = "proxy") => last.ret.raw # watch

\* C1 happens: the watched endpoint hit the threshold, is banned, and getNextProxy
\* has just handed out another endpoint
C1_Witness ==
    /\ alive
    /\ ThresholdHit
    /\ IsBanned(state, watch, now)
    /\ last.op = "getNextProxy"
    /\ last.ret.kind = "proxy"
    /\ last.ret.raw # watch

C3_SuccessResetsCount ==
    /\ (alive /\ last.op = "reportSuccess") => last.arg \notin DOMAIN failures
    /\ (alive /\ last = Call("reportFailure", watch, Bool(TRUE))) => ThresholdHit

\* C3 happens: a reportSuccess dropped recorded failures of the watched endpoint,
\* and the endpoint has just been banned by the third failure after it
C3_Witness ==
    /\ alive
    /\ recent.reset
    /\ last = Call("reportFailure", watch, Bool(TRUE))
    /\ ThresholdHit

\* C4: getStats() gives total = available + banned with available >= 0, total the
\* number of configured endpoints, banned the number of configured endpoints
\* getNextProxy excludes, available the number it can return.
C4_StatsPartition ==
    alive =>
        LET s == GetStatsOf(state, allUrls, now)
        IN /\ s.total = s.available + s.banned
           /\ s.available >= 0
           /\ s.total = Len(allUrls)
           /\ s.banned = Cardinality({ u \in Range(allUrls) : IsBanned(state, u, now) })
           /\ s.available = Len(Available(state, allUrls, now))

\* C5: a ban that a pool instance issued and saved is in force in every instance
\* constructed from the store afterwards until the ban's expiresAt, and an
\* instance holds no ban that had expired when it loaded the store.
C5_BanSurvivesRestart ==
    /\ (alive /\ now < issuedUntil) => IsBanned(state, watch, now)
    /\ (alive /\ last.op = "new") =>
           \A u \in DOMAIN state.banned : state.banned[u].expiresAt > now

\* C6: the ban store is written all-or-nothing: whatever happens during save(),
\* the file holds a complete document, never a torn one.
C6_StoreNeverTorn == disk # Torn

RecentFailures(fs, u, t) ==
    LET old == IF u \in DOMAIN fs THEN fs[u] ELSE << >>
    IN Cardinality({ i \in 1..Len(old) : t - old[i] < FAIL_WINDOW_MS })

\* C30: a reportFailure bans the endpoint iff the failures recorded for it less
\* than an hour ago, with the current one, are at least three
C30_OnlyRecentFailuresCount ==
    [][ (last'.op = "reportFailure" /\ failures' # failures) =>
          LET u == last'.arg
              bans == RecentFailures(failures, u, now) + 1 >= FAIL_THRESHOLD
          IN /\ last'.ret = Bool(bans)
             /\ bans => /\ u \in DOMAIN state'.banned
                        /\ state'.banned[u].bannedAt = now
                        /\ state'.banned[u].expiresAt = now + BAN_DURATION_MS
             /\ ~bans => state' = state ]_vars

\* three failures were reported on an endpoint over more than an hour, and the
\* third found the two before it too old and did not ban
C30_Witness ==
    /\ last = Call("reportFailure", watch, Bool(FALSE))
    /\ Len(recent.calls) = FAIL_THRESHOLD
    /\ recent.calls[FAIL_THRESHOLD] - recent.calls[1] >= FAIL_WINDOW_MS
    /\ recent.calls[FAIL_THRESHOLD] - recent.calls[2] >= FAIL_WINDOW_MS
    /\ ~recent.reset
    /\ watch \in DOMAIN failures
    /\ failures[watch] = <<now>>
    /\ ~IsBanned(state, watch, now)

\* the endpoints of the pool with no ban in force
Selectable ==
    { u \in Range(allUrls) :
        ~(u \in DOMAIN state.banned /\ now < state.banned[u].expiresAt) }

\* C31: every ban lasts 12 hours from its start and was issued by exactly three
\* failures; the reportFailure that bans leaves the endpoint with no recorded
\* failure; and getNextProxy selects among the endpoints with no ban in force,
\* those whose ban has expired included
C31_BanExpiresAndStartsAfresh ==
    alive =>
        /\ \A u \in DOMAIN state.banned :
              /\ state.banned[u].expiresAt = state.banned[u].bannedAt + BAN_DURATION_MS
              /\ state.banned[u].failures = FAIL_THRESHOLD
        /\ (last.op = "reportFailure" /\ last.ret = Bool(TRUE)) =>
              last.arg \notin DOMAIN failures
        /\ (last.op = "getNextProxy" /\ Selectable # {}) => current \in Selectable

\* a ban of the watched endpoint was issued and has expired, and getNextProxy has
\* just handed the endpoint out again
C31_Witness ==
    /\ alive
    /\ issuedUntil > 0
    /\ now >= issuedUntil
    /\ last.op = "getNextProxy"
    /\ last.ret.kind = "proxy"
    /\ last.ret.raw = watch
    /\ watch \notin DOMAIN state.banned

----------------------------------------------------------------------------
\* Request filter: properties of the contexts

\* C24: every context carries at most one hook, and carries one iff the filter
\* records it as installed; install on an installed context and uninstall on a
\* context that is not installed change nothing, the first returning success
\* and the second failure
C24_InstallIdempotent ==
    /\ \A c \in Contexts :
          /\ Cardinality(routes[c]) <= 1
          /\ routes[c] # {} <=> Has(installedContexts, c)
          /\ Has(installedContexts, c) => routes[c] = {BoundOf(installedContexts, c)}
    /\ \A i, j \in 1..Len(installedContexts) :
          i # j => installedContexts[i].context # installedContexts[j].context
    /\ served.op = "install" =>
          /\ served.ret
          /\ served.context # 0 => Has(installedContexts, served.context)
          /\ served.had => Hooks = served.before
    /\ served.op = "uninstall" =>
          /\ served.ret = served.had
          /\ served.context # 0 => ~Has(installedContexts, served.context)
          /\ ~served.had => Hooks = served.before

\* install was called on a context that was installed, every context being installed
C24_Witness ==
    /\ served.op = "install"
    /\ served.context # 0
    /\ served.had
    /\ Len(installedContexts) = MaxContexts

\* C25: a request made on a context the filter is attached to is decided as the
\* rule set before the change in progress decides it or as the rule set after
\* it does, and with no change in progress as the current rule set does
C25_DecidedByOldOrNew ==
    (served.op = "request" /\ served.had) =>
        served.block \in { EvaluateWith(served.old, served.request).block,
                           EvaluateWith(served.new, served.request).block }

\* C40: a request made on a context between the return of install(context) and
\* a call of uninstall(context) by the owner is decided by the filter, also
\* while a configuration change re-attaches the hooks; and when the change has
\* gone through its contexts each of them has a hook
C40_HookedThroughChanges ==
    /\ (served.op = "request" /\ served.had) => served.hooked
    /\ (change.phase = "reinstall" /\ change.todo = << >>) =>
          \A c \in change.all : routes[c] # {} /\ Has(installedContexts, c)

\* the sum of the counters of a map
RECURSIVE SumOf(_)
SumOf(f) ==
    IF DOMAIN f = {} THEN 0
    ELSE LET k == CHOOSE x \in DOMAIN f : TRUE
         IN f[k] + SumOf([x \in (DOMAIN f) \ {k} |-> f[x]])

\* C34: whatever the order in which the hooks of the contexts run the handler,
\* blocked + allowed is the number of requests handled since the last reset, and
\* the counters by resource type add up to blocked
C34_CountersAddUp ==
    /\ stats.blocked + stats.allowed = requestsHandled
    /\ SumOf(stats.blockedByType) = stats.blocked
    /\ \A t \in DOMAIN stats.blockedByType : stats.blockedByType[t] >= 1

\* the hooks of two contexts have run the handler since the last reset, one
\* request blocked and one allowed, the last on the second context
C34_Witness ==
    /\ Len(installedContexts) = MaxContexts
    /\ served.op = "request"
    /\ served.hooked
    /\ served.context = MaxContexts
    /\ stats.blocked >= 1
    /\ stats.allowed >= 1
    /\ requestsHandled = MaxRequests

----------------------------------------------------------------------------
\* Blocked-host tracker: properties

\* the key of a map whose last inc is the oldest
LeastRecent(l) ==
    CHOOSE k \in Keys(l.map) : \A j \in Keys(l.map) : l.touched[k] <= l.touched[j]

\* C26: the tracker never holds more hosts than its size limit; an inc of a host
\* it holds evicts nothing, an inc of a new host below the limit evicts nothing,
\* and an inc of a new host at the limit evicts exactly the host whose last inc
\* is the oldest, whatever the counts
C26_EvictsLeastRecent ==
    [][ lru'.incs = lru.incs + 1 =>
          LET key == lru'.key
              before == Keys(lru.map)
              after == Keys(lru'.map)
          IN /\ Len(lru'.map) <= lru.maxSize
             /\ Cardinality(after) = Len(lru'.map)
             /\ after = IF key \in before \/ Len(lru.map) < lru.maxSize
                        THEN before \cup {key}
                        ELSE (before \ {LeastRecent(lru)}) \cup {key} ]_vars

\* a full tracker evicted a host counted twice and kept one counted once
C26_Witness ==
    /\ lru.maxSize = 2
    /\ Len(lru.map) = 2
    /\ lru.evicted # Null
    /\ lru.evicted.count >= 2
    /\ \A i \in 1..Len(lru.map) : lru.map[i].count = 1

----------------------------------------------------------------------------
\* Session: properties

\* the tools that take an element identifier
UidTools == {"click", "fill", "openLink"}

\* the last call was a click that found its element on an open page
ClickedItem ==
    lastTool.op = "click" /\ lastTool.item # NoItem /\ lastTool.pageBefore # 0

\* a strategy applies to an element: role+label needs both, text needs the label
Applies(strategy, item) ==
    CASE strategy = "role" -> item.role # "" /\ item.name # ""
      [] strategy = "text" -> item.name # ""
      [] OTHER -> TRUE

\* the place of a strategy in the declared order
Place(strategy) == CHOOSE i \in 1..Len(Strategies) : Strategies[i] = strategy

\* the strategies were tried in the declared order, each after every applicable
\* one before it had failed, and none after one had landed
TriedInOrder ==
    LET tried == lastTool.attempts
    IN /\ tried # << >>
       /\ \A i, j \in 1..Len(tried) : i < j => Place(tried[i]) < Place(tried[j])
       /\ \A i \in 1..(Len(tried) - 1) : tried[i] \notin lastTool.reach
       /\ \A i \in 1..Len(tried) :
            \A k \in 1..(Place(tried[i]) - 1) :
                Applies(Strategies[k], lastTool.item) => Strategies[k] \in Range(tried)

\* C12: after a successful click or scroll there is no current index, and a
\* click, fill or openLink called next, a second click with the same identifier
\* included, fails with not-found on no element
C12_NoIndexAfterClickOrScroll ==
    /\ (lastTool.op \in {"click", "scroll"} /\ lastTool.outcome = "ok") => lastSnapshot.null
    /\ (lastTool.op \in UidTools /\ lastTool.after \in {"click", "scroll"}) =>
           /\ lastTool.outcome = "notFound"
           /\ lastTool.item = NoItem
           /\ lastTool.names = lastTool.uid

\* a click landed and the same identifier was clicked again
C12_Witness ==
    /\ lastTool.op = "click"
    /\ lastTool.after = "click"
    /\ lastTool.again
    /\ lastTool.outcome = "notFound"

\* C13: an identifier read in an index that is no longer the latest one produced
\* is not found by click, fill and openLink
C13_StaleIdentifierNotFound ==
    (lastTool.op \in UidTools /\ lastTool.stale) => lastTool.outcome = "notFound"

\* C14, as stated: the strategies are tried in the declared order, each after
\* the earlier applicable ones failed and none after one landed, and a target
\* that only the script-level click reaches makes all three others fail first
C14_AllThreeBeforeScript ==
    (ClickedItem /\ lastTool.outcome = "ok") =>
        /\ TriedInOrder
        /\ lastTool.reach = {"script"} => lastTool.attempts = Strategies

\* C14, amended: ... and a target that only the script-level click reaches makes
\* every other strategy that applies to the element fail first: the selector,
\* and role+label and text only for an element with a label
C14_ApplicableBeforeScript ==
    ClickedItem =>
        /\ TriedInOrder
        /\ lastTool.outcome = "ok" <=>
               lastTool.attempts[Len(lastTool.attempts)] \in lastTool.reach
        /\ lastTool.reach = {"script"} =>
               lastTool.attempts =
                   SelectSeqBy(Strategies,
                               { x \in Range(Strategies) : Applies(x, lastTool.item) })

\* a labelled element that only the script-level click reaches was clicked after
\* the three other strategies
C14_Witness ==
    /\ ClickedItem
    /\ lastTool.outcome = "ok"
    /\ lastTool.reach = {"script"}
    /\ lastTool.attempts = Strategies

LinkLike(item) == item.role \in {"a", "link"}

\* C16: after a click landed, the tool navigates to the element's target iff the
\* url is the one before the click and the element is link-like with a target
C16_HrefFallback ==
    (lastTool.op = "click" /\ lastTool.outcome = "ok") =>
        /\ lastTool.fallback # "none" <=>
               /\ lastTool.unchanged
               /\ LinkLike(lastTool.item)
               /\ lastTool.item.href # NoHref
        /\ lastTool.fallback = "loaded" => currentUrl = lastTool.target

\* C17: after a click during which a tab joined the tab set the active tab is
\* the last tab, currentPageIndex points at it and currentUrl is its url;
\* otherwise the active tab is the one before the click
C17_NewTabActive ==
    (lastTool.op = "click" /\ lastTool.outcome = "ok") =>
        IF lastTool.tabAdded
        THEN /\ page = pages[Len(pages)]
             /\ currentPageIndex = Len(pages) - 1
             /\ currentUrl = tabs[page]
        ELSE page = lastTool.pageBefore

\* C21: closed is terminal: the action that follows a completed close() neither
\* launches a browser nor gives the session a page
C21_ClosedIsTerminal ==
    [][ (lastTool.op = "close" /\ ~browser /\ page = 0) => (~browser' /\ page' = 0) ]_vars

\* C18: navigate makes at most two attempts and one rotation; a tunnel failure
\* of the first attempt with a pool attached is followed by one rotation and one
\* retry, whose failure propagates; any other failure of the first attempt
\* propagates at once
C18_OneRotationOneRetry ==
    lastTool.op = "navigate" =>
        LET ends == lastTool.ends
            rotates == ends[1] = "tunnel" /\ lastTool.pool
        IN /\ lastTool.gotos = Len(ends)
           /\ lastTool.gotos = IF rotates THEN 2 ELSE 1
           /\ lastTool.rotations = IF rotates THEN 1 ELSE 0
           /\ lastTool.outcome = "ok" <=> ends[Len(ends)] = "ok"
           /\ lastTool.outcome # "ok" => lastTool.outcome = "navError"
           /\ lastTool.outcome = "ok" =>
                  /\ currentUrl = lastTool.target
                  /\ ~lastSnapshot.null

\* a tunnel failure, a rotation, and a retry that succeeded
C18_Witness ==
    /\ lastTool.op = "navigate"
    /\ lastTool.pool
    /\ lastTool.ends = <<"tunnel", "ok">>
    /\ lastTool.rotations = 1
    /\ lastTool.launchBefore # NoUrl
    /\ lastTool.outcome = "ok"

\* C19: rotate() with a pool relaunches the browser with an endpoint other than
\* the one it reported, whenever the pool holds another unbanned one; without a
\* pool it fails
C19_RotateChangesEndpoint ==
    lastTool.op = "rotate" =>
        /\ (lastTool.pool /\ lastTool.others # {}) =>
               proxyLaunchRaw # lastTool.launchBefore
        /\ ~lastTool.pool => lastTool.outcome = "unavailable"

\* C20: three failures that rotations reported on one endpoint within the
\* window, with no success between, leave the endpoint banned
C20_FailuresSurviveRotation ==
    ( /\ alive
      /\ Len(reported) = FAIL_THRESHOLD
      /\ reported[FAIL_THRESHOLD] - reported[1] < FAIL_WINDOW_MS
      /\ now < reported[1] + BAN_DURATION_MS ) =>
        IsBanned(state, watch, now)

\* C27: switchTab with an index inside the tab set, or with a text some tab's
\* url contains, makes that tab (the first such tab, in tab-open order) the
\* active one and returns success; otherwise it returns failure and leaves the
\* active tab, currentPageIndex and currentUrl as they were
C27_SwitchTab ==
    lastTool.op = "switchTab" =>
        LET arg == lastTool.arg
            hits == { k \in 0..(Len(pages) - 1) :
                        \E i \in 1..Len(tabs[pages[k + 1]]) : tabs[pages[k + 1]][i] = arg.needle }
            want == IF arg.isNumber
                    THEN IF arg.index >= 0 /\ arg.index < Len(pages) THEN arg.index ELSE 0 - 1
                    ELSE IF hits = {} THEN 0 - 1
                         ELSE CHOOSE k \in hits : \A j \in hits : k <= j
        IN IF want >= 0
           THEN /\ lastTool.outcome = "ok"
                /\ page = pages[want + 1]
                /\ currentPageIndex = want
                /\ currentUrl = tabs[page]
           ELSE /\ lastTool.outcome = "false"
                /\ page = lastTool.pageBefore
                /\ currentPageIndex = lastTool.indexBefore
                /\ currentUrl = lastTool.urlBefore

\* with the second of two tabs active, a text both urls contain selected the first
C27_Witness ==
    /\ lastTool.op = "switchTab"
    /\ ~lastTool.arg.isNumber
    /\ lastTool.arg.needle = "//"
    /\ Len(pages) >= 2
    /\ lastTool.indexBefore = 1
    /\ lastTool.outcome = "ok"
    /\ currentPageIndex = 0

\* C28: close() of a pooled session clears the page and tab references and
\* leaves the browser and its pages alone; close() of a standalone session
\* closes the browser and clears the browser, page and tab references; a
\* close() that follows a close() changes nothing
C28_CloseByOwnership ==
    [][ lastTool'.op = "close" =>
          /\ page' = 0
          /\ pages' = << >>
          /\ IF ownership = "pooled"
             THEN browser' = browser /\ tabs' = tabs
             ELSE ~browser' /\ (browser => tabs' = << >>)
          /\ UNCHANGED <<currentPageIndex, currentUrl, visitedUrls, lastSnapshot>>
          /\ lastTool.op = "close" => UNCHANGED <<browser, tabs, page, pages>> ]_vars

\* a pooled session was closed and the page it was given is still open
C28_Witness ==
    /\ ownership = "pooled"
    /\ lastTool.op = "close"
    /\ lastTool.pageBefore # 0
    /\ page = 0
    /\ pages = << >>
    /\ tabs # << >>

----------------------------------------------------------------------------
\* Request filter: properties

\* the decision last made, the request it was made on and the rules it was made under
TheRequest == lastDecision.request

TheRules == lastDecision.under

TheHost == StripDots(Hostname(LowerStr(TheRequest.url)))

TheType == LowerStr(TheRequest.resourceType)

\* the host is an allowlisted domain or a subdomain of one
HostAllowlisted ==
    \E d \in Range(TheRules.allowlistDomains) :
        TheHost # << >> /\ (TheHost = d \/ EndsWith(TheHost, <<".">> \o d))

\* the request has a network scheme
NetworkScheme == TheRequest.url # << >> /\ LowerTok(TheRequest.url[1]) \in HostSchemes

\* the decision blocks by the resource-category rule
BlockedByType ==
    /\ lastDecision.decision.block
    /\ lastDecision.decision.blockRule = <<"type:">> \o TheType

\* the set of types configured for a mode
ConfiguredTypes(mode) == Range(NormalizeArray(config.blockResourceTypes.fields[mode]))

\* C7: a request whose host is an allowlisted domain or a subdomain of one is
\* allowed, whatever its resource type, the active mode and the domain and url
\* block patterns
C7_AllowlistOverrides ==
    (lastDecision.made /\ HostAllowlisted) => ~lastDecision.decision.block

\* an allowlisted host that a domain pattern and a url pattern both match was allowed
C7_Witness ==
    /\ lastDecision.made
    /\ HostAllowlisted
    /\ TheRules.enabled
    /\ TheRequest = Request(UrlExAds, Script)
    /\ Dom3("ads", "example", "com") \in Range(TheRules.domainPatterns)
    /\ <<"/", "ads", "/">> \in Range(TheRules.urlPatterns)
    /\ ~lastDecision.decision.block

\* C8: a document request is blocked by the resource-category rule or not at
\* all, never by a domain or url pattern; under the default resource types no
\* document request is blocked
C8_DocumentsExempt ==
    (lastDecision.made /\ TheType = Document) =>
        /\ lastDecision.decision.block =>
               /\ lastDecision.decision.blockRule = <<"type:">> \o Document
               /\ Document \in ConfiguredTypes(TheRules.mode)
        /\ config.blockResourceTypes = DefaultTypes => ~lastDecision.decision.block

\* a document request to a host on the block list was allowed
C8_Witness ==
    /\ lastDecision.made
    /\ TheRequest = Request(UrlAds, Document)
    /\ TheRules.enabled
    /\ Dom("doubleclick", "net") \in Range(TheRules.domainPatterns)
    /\ ~HostAllowlisted
    /\ ~lastDecision.decision.block

\* C9: one of the two modes is active whatever mode values were given; with the
\* filter enabled, a network request to a host off the allowlist is blocked by
\* the resource-category rule iff its type is in the active mode's set, which
\* by default is media when balanced and image, media, font when aggressive; the
\* first such image request in aggressive mode is blocked and counted once
C9_OneModeActive ==
    /\ cache.mode \in {"balanced", "aggressive"}
    /\ cache.mode = "aggressive" <=>
           (config.mode.t = "string" /\ LowerStr(config.mode.chars) = <<"aggressive">>)
    /\ cache.blockedTypes = ConfiguredTypes(cache.mode)
    /\ config.blockResourceTypes = DefaultTypes =>
           cache.blockedTypes = IF cache.mode = "balanced" THEN {Media} ELSE {Image, Media, Font}
    /\ (lastDecision.made /\ TheRules.enabled /\ NetworkScheme /\ ~HostAllowlisted) =>
           /\ BlockedByType <=> TheType \in ConfiguredTypes(TheRules.mode)
           /\ ( /\ config.blockResourceTypes = DefaultTypes
                /\ TheRules.mode = "aggressive"
                /\ TheType = Image
                /\ lastDecision.first
                /\ Handled(stats) = 1 ) =>
                  /\ BlockedByType
                  /\ stats.blocked = 1
                  /\ stats.blockedByType = Put(EmptyMap, Image, 1)

\* after updateConfig({mode: 'AGGRESSIVE'}) the first image request was blocked
C9_Witness ==
    /\ config.mode = StrV(<<"AGGRESSIVE">>)
    /\ config.blockResourceTypes = DefaultTypes
    /\ lastDecision.made
    /\ lastDecision.first
    /\ TheRequest = Request(UrlPlain, Image)
    /\ TheRules = cache
    /\ BlockedByType
    /\ stats.blockedByType = Put(EmptyMap, Image, 1)

\* C10, as stated: the same url and resource type decided twice in a row under
\* the same mode and rule set get the same outcome
C10_SameInputsSameOutcome ==
    (lastDecision.made /\ lastDecision.sameRules) =>
        lastDecision.decision.block = lastDecision.before

\* C10, amended: the same url and resource type decided twice in a row under the
\* same enabled flag, mode and rule set get the same outcome, whatever the
\* statistics and the requests decided before
C10_SameInputsAndSwitchSameOutcome ==
    (lastDecision.made /\ lastDecision.sameSwitch) =>
        lastDecision.decision.block = lastDecision.before

\* a request was blocked, counted, and blocked again
C10_Witness ==
    /\ lastDecision.made
    /\ lastDecision.sameSwitch
    /\ lastDecision.before
    /\ lastDecision.decision.block
    /\ stats.blocked = 2

\* the request has one of the schemes that are not fetched from the network
NonNetworkScheme ==
    TheRequest.url # << >> /\ LowerTok(TheRequest.url[1]) \in {"data:", "blob:", "about:"}

\* C11: a data:, blob: or about: request is allowed, whatever its resource type
\* and the rules configured
C11_NonNetworkAllowed ==
    (lastDecision.made /\ NonNetworkScheme) => ~lastDecision.decision.block

\* a blob: request of a blocked type, whose url a url pattern matches, was allowed
C11_Witness ==
    /\ lastDecision.made
    /\ TheRequest = Request(UrlBlob, Media)
    /\ TheRules.enabled
    /\ Media \in TheRules.blockedTypes
    /\ \E q \in Range(TheRules.urlPatterns) : Includes(LowerStr(TheRequest.url), q)
    /\ ~lastDecision.decision.block

\* C32: a click, fill or openLink that follows a successful fill or openLink finds
\* no element under any identifier: the index the action started from is gone
C32_FillAndOpenLinkInvalidate ==
    (lastTool.op \in UidTools /\ lastTool.after \in {"fill", "openLink"}) =>
        lastTool.outcome = "notFound"

\* C33: after a navigate that succeeded the active page is at the url asked for,
\* currentUrl is its url and is in the visited set, and the index is the one
\* taken of that page after it loaded
C33_NavigateRefreshes ==
    (lastTool.op = "navigate" /\ lastTool.outcome = "ok") =>
        /\ page # 0
        /\ tabs[page] = lastTool.target
        /\ currentUrl = tabs[page]
        /\ currentUrl \in visitedUrls
        /\ ~lastSnapshot.null
        /\ lastSnapshot = CreateSnapshot(tabs[page])
        /\ held.current => held.item \in Range(lastSnapshot.elements)

\* a navigate succeeded on its second attempt, after a rotation, and left the
\* index of the page it loaded
C33_Witness ==
    /\ lastTool.op = "navigate"
    /\ lastTool.outcome = "ok"
    /\ lastTool.rotations = 1
    /\ lastTool.ends = <<"tunnel", "ok">>
    /\ currentUrl = SiteA
    /\ Len(lastSnapshot.elements) = Len(PageElements(SiteA))

C39_FailedClickChangesNothing ==
    [][ (lastTool'.op = "click" /\ lastTool'.outcome \in {"notFound", "exhausted"}) =>
            UNCHANGED <<lastSnapshot, currentUrl, visitedUrls, page, currentPageIndex>> ]_vars

\* every strategy was tried on an element of the index and failed, and the
\* index is still the one the element came from
C39_Witness ==
    /\ lastTool.op = "click"
    /\ lastTool.outcome = "exhausted"
    /\ Len(lastTool.attempts) = Len(Strategies)
    /\ ~lastSnapshot.null
    /\ lastTool.item \in Range(lastSnapshot.elements)
    /\ currentUrl = SiteA

\* C38: while the session is active (a browser and an active page), currentPageIndex
\* is an index of the tab set, the active page is the tab at that index, no page
\* is in the tab set twice, and the filter of the session has a hook on the
\* network context of the active page
C38_ActiveSessionShape ==
    (browser /\ page # 0) =>
        /\ 0 <= currentPageIndex
        /\ currentPageIndex < Len(pages)
        /\ page = pages[currentPageIndex + 1]
        /\ \A i, j \in 1..Len(pages) : pages[i] = pages[j] => i = j
        /\ Has(installedContexts, PageContext(Ctx))
        /\ BoundOf(installedContexts, PageContext(Ctx)) \in routes[PageContext(Ctx)]

\* a click opened a tab and the session moved to it; a rotation then left the
\* session on the only tab of the browser it launched
C38_Witness ==
    /\ browser
    /\ lastTool.op = "rotate"
    /\ lastTool.outcome = "ok"
    /\ lastTool.pageBefore = 2
    /\ PopupUrl \in visitedUrls
    /\ page = 1
    /\ Len(pages) = 1
    /\ currentPageIndex = 0

----------------------------------------------------------------------------
\* Command line: properties

\* C22: an invocation that failed (its tool threw, its init() failed or its
\* close() failed) has printed the structured error and returned 1, and nothing
\* escaped runCli
C22_FailuresAreStructured ==
    (cli.phase = "done" /\ (cli.threw \/ cli.initFails \/ cli.closeFails))
        => (~cli.escaped /\ cli.out = "error" /\ cli.exit = 1)

\* C36: after an updateConfig, every setting its patch did not name has the value
\* it had before, and the rules compiled from it are those compiled before
C36_UnnamedSettingsKept ==
    served.op \in {"updateConfig", "adblock updateConfig"} =>
        \A k \in Settings \ served.given :
            /\ config[k] = served.settings[k]
            /\ BuildCache([served.settings EXCEPT ![k] = config[k]]) = BuildCache(served.settings)

\* C35: an invocation that launched a browser has closed it when it ends
C35_BrowserClosedAtExit ==
    (cli.phase = "done" /\ cli.launched) => ~browser

\* C23: a click, fill or open-link command given the identifier the latest index
\* printed by an earlier command listed finds the element that index recorded
C23_IdentifierOutlivesInvocation ==
    (/\ cli.phase = "running"
     /\ lastTool.op \in UidTools
     /\ held.current
     /\ lastTool.uid = held.uid)
        => (lastTool.outcome # "notFound" /\ lastTool.item = held.item)

====
